---- MODULE Spec2Model ----
(***************************************************************************)
(* A model of the ms-nrbf codec: the primitive codec (parse.rs,            *)
(* unparse.rs), the typed enums and the record codec (enums.rs,            *)
(* records.rs, common.rs) and the Stream decoder and encoder (stream.rs).  *)
(*                                                                         *)
(* Representation.                                                         *)
(*   byte            a number in 0..255                                    *)
(*   String, &str    the sequence of its UTF-8 bytes                       *)
(*   i8 i16 i32 u8 u16, bool, char   a number (char: the scalar value)     *)
(*   u32 u64 i64 f32 f64   the bit pattern, as the sequence of its bytes   *)
(*                   most significant first (the values do not fit the     *)
(*                   model checker's integers)                             *)
(*   Option<T>       <<>> for None, <<x>> for Some(x)                      *)
(*   a reader        R = [bytes, overflow_checks]: the input and the build *)
(*                   that reads it, with the position p of the next byte   *)
(*                   to read (from 1)                                      *)
(*   Result<T, ParseError>, with the panics the parser can raise:          *)
(*                   [e, x, v, p]: e is "ok", a ParseError variant or      *)
(*                   "panic"; x the number the error carries; v the        *)
(*                   value; p the reader's position afterwards             *)
(*   a writer        [panic, out]: the bytes written, and whether the      *)
(*                   write panicked after writing them                     *)
(***************************************************************************)
EXTENDS Integers, Sequences, FiniteSets, TLC

VARIABLES
    pc,               \* "model": a Stream is held; "wire": bytes are held; "stopped": a call failed
    stream,           \* the Stream held (its root Class), <<>> when none
    wire,             \* the bytes held
    records,          \* the record list of the last encode or decode
    err,              \* how the last call ended: "ok", a ParseError variant, or "panic"
    errx,             \* the number that error carries (the offending discriminant byte)
    panic_at,         \* the place of the panic, "" when none
    origin,           \* the input this behaviour started from: [kind, stream, wire]
    steps,            \* the calls made so far
    held,             \* the value a call of the primitive codec holds, <<>> when none
    overflow_checks   \* the build: TRUE when integer overflow panics (debug), FALSE when it wraps (release)

vars ==
    <<pc, stream, wire, records, err, errx, panic_at, origin, steps, held,
      overflow_checks>>

(***************************************************************************)
(* Results of the parsers.                                                 *)
(***************************************************************************)
Ok(v, p) == [e |-> "ok", x |-> 0, v |-> v, p |-> p]

Fail(e, x, p) == [e |-> e, x |-> x, v |-> <<>>, p |-> p]

\* The `?` operator on a failed result: the failure, whatever its value was.
Propagate(r) == Fail(r.e, r.x, r.p)

\* `let r = ...?; K(r)`: the failure of r, or the rest of the function on it.
Bind(r, K(_)) == IF r.e # "ok" THEN Propagate(r) ELSE K(r)

\* `let v = ...; K(v)`
With(v, K(_)) == K(v)

Reader(bytes, checks) == [bytes |-> bytes, overflow_checks |-> checks]

\* usize from an i32 count: a negative count becomes a count no input can satisfy.
AsUsize(n, R) == IF n < 0 THEN Len(R.bytes) + 1 ELSE n

RECURSIVE Reverse(_)
Reverse(s) == IF s = <<>> THEN <<>> ELSE Reverse(Tail(s)) \o <<Head(s)>>

(***************************************************************************)
(* parse.rs: fixed-width integers and floats.                              *)
(***************************************************************************)
\* A read of one byte that leaves the reader where it was.
ParseU8_Peek(R, p) == IF p > Len(R.bytes) THEN Fail("IoError", 0, p) ELSE Ok(R.bytes[p], p)

ParseU8(R, p) == IF p > Len(R.bytes) THEN Fail("IoError", 0, p) ELSE Ok(R.bytes[p], p + 1)

ParseU16(R, p) ==
    IF p + 1 > Len(R.bytes) THEN Fail("IoError", 0, p)
    ELSE Ok(R.bytes[p] + 256 * R.bytes[p + 1], p + 2)

\* u32, u64 (and the f32, f64, i64 read through them): the bit pattern.
ParseBits(R, p, n) ==
    IF p + n - 1 > Len(R.bytes) THEN Fail("IoError", 0, p)
    ELSE Ok(Reverse(SubSeq(R.bytes, p, p + n - 1)), p + n)

ParseU32(R, p) == ParseBits(R, p, 4)

ParseU64(R, p) == ParseBits(R, p, 8)

ParseI8(R, p) ==
    Bind(ParseU8(R, p), LAMBDA r : Ok(IF r.v >= 128 THEN r.v - 256 ELSE r.v, r.p))

ParseI16(R, p) ==
    Bind(ParseU16(R, p), LAMBDA r : Ok(IF r.v >= 32768 THEN r.v - 65536 ELSE r.v, r.p))

\* u32 as i32, from the bit pattern (most significant byte first).
U32AsI32(b) ==
    (IF b[1] >= 128 THEN b[1] - 256 ELSE b[1]) * 16777216
        + b[2] * 65536 + b[3] * 256 + b[4]

ParseI32(R, p) == Bind(ParseU32(R, p), LAMBDA r : Ok(U32AsI32(r.v), r.p))

ParseI64(R, p) == ParseU64(R, p)

ParseF32(R, p) == ParseU32(R, p)

ParseF64(R, p) == ParseU64(R, p)

(***************************************************************************)
(* parse.rs: char.                                                         *)
(***************************************************************************)
\* char::from_u32 of the u32 hi * 256 + lo.
IsScalar(hi, lo) ==
    LET top == hi \div 256
        x   == (hi % 256) * 256 + lo
    IN  /\ hi <= 4351                                \* at most 0x10FFFF
        /\ ~(top = 0 /\ x >= 55296 /\ x <= 57343)    \* not a surrogate, 0xD800..0xDFFF

\* The iterations with none for a continuation byte, 10xxxxxx.
CharIterations_NoneForContinuation(byte) ==
    IF byte < 192 THEN 0
    ELSE IF byte \div 32 = 6 THEN 1
    ELSE IF byte \div 16 = 14 THEN 2
    ELSE 3

CharIterations(byte) ==
    IF byte < 128 THEN 0                 \* byte & 0x80 == 0
    ELSE IF byte \div 32 = 6 THEN 1      \* byte & 0xE0 == 0xC0
    ELSE IF byte \div 16 = 14 THEN 2     \* byte & 0xF0 == 0xE0
    ELSE 3

\* The loop `byte <<= 8; byte |= next`: acc is the u32 without its lowest byte (hi)
\* and that byte (lo).
RECURSIVE CharLoop(_, _, _, _, _)
CharLoop(R, p, hi, lo, k) ==
    IF k = 0
    THEN IF IsScalar(hi, lo) THEN Ok(hi * 256 + lo, p) ELSE Fail("InvalidChar", 0, p)
    ELSE Bind(ParseU8(R, p), LAMBDA r : CharLoop(R, r.p, hi * 256 + lo, r.v, k - 1))

ParseChar(R, p) ==
    Bind(ParseU8(R, p), LAMBDA r : CharLoop(R, r.p, 0, r.v, CharIterations(r.v)))

(***************************************************************************)
(* parse.rs: String.                                                       *)
(***************************************************************************)
Cont(s, j, lo, hi) == j <= Len(s) /\ s[j] >= lo /\ s[j] <= hi

\* The length of the UTF-8 sequence that byte b leads, 0 when it leads none.
LeadLen(b) ==
    IF b < 128 THEN 1
    ELSE IF b >= 194 /\ b <= 223 THEN 2
    ELSE IF b >= 224 /\ b <= 239 THEN 3
    ELSE IF b >= 240 /\ b <= 244 THEN 4
    ELSE 0

\* String::from_utf8 accepts the byte of s at position i: a leading byte with its
\* continuation bytes after it, or a continuation byte of a leading byte before it.
Utf8At(s, i) ==
    LET b == s[i]
    IN  IF b < 128 THEN TRUE
        ELSE IF b <= 191
             THEN \E k \in 1..3 :
                     /\ i - k >= 1
                     /\ LeadLen(s[i - k]) > k
                     /\ \A j \in (i - k + 1)..(i - 1) : s[j] >= 128 /\ s[j] <= 191
        ELSE IF b >= 194 /\ b <= 223 THEN Cont(s, i + 1, 128, 191)
        ELSE IF b >= 224 /\ b <= 239
             THEN /\ Cont(s, i + 1, IF b = 224 THEN 160 ELSE 128,
                                    IF b = 237 THEN 159 ELSE 191)
                  /\ Cont(s, i + 2, 128, 191)
        ELSE IF b >= 240 /\ b <= 244
             THEN /\ Cont(s, i + 1, IF b = 240 THEN 144 ELSE 128,
                                    IF b = 244 THEN 143 ELSE 191)
                  /\ Cont(s, i + 2, 128, 191)
                  /\ Cont(s, i + 3, 128, 191)
        ELSE FALSE

\* String::from_utf8 accepts s.
IsUtf8(s) == \A i \in 1..Len(s) : Utf8At(s, i)

Pow2(k) == CASE k = 0 -> 1 [] k = 1 -> 2 [] k = 2 -> 4 [] k = 3 -> 8 [] k = 4 -> 16
             [] k = 5 -> 32 [] k = 6 -> 64 [] k = 7 -> 128

\* ((byte & 0x7F) << (7 * i)) as usize, the shift being a shift of a u8: a shift of
\* 8 or more panics when overflow is checked and is taken modulo 8 when it is not.
LengthShift(R, byte, i) ==
    IF 7 * i >= 8 /\ R.overflow_checks THEN -1
    ELSE ((byte % 128) * Pow2((7 * i) % 8)) % 256

\* for i in 0..5: the length prefix.
RECURSIVE LengthLoop(_, _, _, _)
LengthLoop(R, p, i, length) ==
    IF i = 5 THEN Ok(length, p)
    ELSE Bind(ParseU8(R, p), LAMBDA r :
         With(LengthShift(R, r.v, i), LAMBDA shifted :
             IF shifted < 0 THEN Fail("panic", 0, r.p)
             ELSE IF r.v < 128 THEN Ok(length + shifted, r.p)
             ELSE LengthLoop(R, r.p, i + 1, length + shifted)))

ParseString(R, p) ==
    Bind(LengthLoop(R, p, 0, 0), LAMBDA l :
        IF l.p + l.v - 1 > Len(R.bytes) THEN Fail("IoError", 0, l.p)
        ELSE With(SubSeq(R.bytes, l.p, l.p + l.v - 1), LAMBDA buf :
                 IF IsUtf8(buf) THEN Ok(buf, l.p + l.v)
                 ELSE Fail("StringError", 0, l.p + l.v)))

(***************************************************************************)
(* enums.rs: the typed enums, by discriminant.                             *)
(***************************************************************************)
PrimitiveType ==
    [Boolean |-> 1, Byte |-> 2, Char |-> 3, Decimal |-> 5, Double |-> 6, Int16 |-> 7,
     Int32 |-> 8, Int64 |-> 9, SByte |-> 10, Single |-> 11, TimeSpan |-> 12,
     DateTime |-> 13, UInt16 |-> 14, UInt32 |-> 15, UInt64 |-> 16, Null |-> 17,
     String |-> 18]

BinaryType ==
    [Primitive_ |-> 0, String |-> 1, Object |-> 2, SystemClass |-> 3, Class |-> 4,
     ObjectArray |-> 5, StringArray |-> 6, PrimitiveArray |-> 7]

RecordType ==
    [SerializedStreamHeader |-> 0, ClassWithId |-> 1, SystemClassWithMembers |-> 2,
     ClassWithMembers |-> 3, SystemClassWithMembersAndTypes |-> 4,
     ClassWithMembersAndTypes |-> 5, BinaryObjectString |-> 6, BinaryArray |-> 7,
     MemberTypedPrimitive |-> 8, MemberReference |-> 9, ObjectNull |-> 10,
     MessageEnd |-> 11, BinaryLibrary |-> 12, ObjectNullMultiple256 |-> 13,
     ObjectNullMultiple |-> 14, ArraySinglePrimitive |-> 15, ArraySingleObject |-> 16,
     ArraySingleString |-> 17, MethodCall |-> 21, MethodReturn |-> 22]

BinaryArrayType ==
    [Single |-> 0, Jagged |-> 1, Rectangular |-> 2, SingleOffset |-> 3,
     JaggedOffset |-> 4, RectangularOffset |-> 5]

\* The discriminants of an enum.
Discriminants(enum) == {enum[f] : f \in DOMAIN enum}

\* TryFromPrimitive::try_from_primitive after reading the byte.
ParseEnum(R, p, enum, error) ==
    Bind(ParseU8(R, p), LAMBDA r :
        IF r.v \in Discriminants(enum) THEN Ok(r.v, r.p) ELSE Fail(error, r.v, r.p))

ParsePrimitiveType(R, p) == ParseEnum(R, p, PrimitiveType, "InvalidPrimitiveType")

ParseBinaryType(R, p) == ParseEnum(R, p, BinaryType, "InvalidBinaryType")

\* ParseRecordType reporting the error of another enum.
ParseRecordType_AsPrimitive(R, p) == ParseEnum(R, p, RecordType, "InvalidPrimitiveType")

ParseRecordType(R, p) == ParseEnum(R, p, RecordType, "InvalidRecordType")

ParseBinaryArrayType(R, p) == ParseEnum(R, p, BinaryArrayType, "InvalidBinaryArrayType")

(***************************************************************************)
(* 64-bit arithmetic on bit patterns (most significant byte first).        *)
(***************************************************************************)
\* x * m + carry over the bytes of b from the least significant one: the bytes of
\* the product modulo 2^(8 Len(b)) and the carry out of the top byte.
RECURSIVE MulSmall(_, _, _)
MulSmall(b, m, carry) ==
    IF b = <<>> THEN [bytes |-> <<>>, carry |-> carry]
    ELSE With(b[Len(b)] * m + carry, LAMBDA v :
         With(MulSmall(SubSeq(b, 1, Len(b) - 1), m, v \div 256), LAMBDA rest :
             [bytes |-> rest.bytes \o <<v % 256>>, carry |-> rest.carry]))

\* The two's complement of b.
RECURSIVE NegateBits(_, _)
NegateBits(b, carry) ==
    IF b = <<>> THEN <<>>
    ELSE With((255 - b[Len(b)]) + carry, LAMBDA v :
             NegateBits(SubSeq(b, 1, Len(b) - 1), v \div 256) \o <<v % 256>>)

IsNegative(b) == b[1] >= 128

\* i64::unsigned_abs
UnsignedAbs(b) == IF IsNegative(b) THEN NegateBits(b, 1) ELSE b

\* b / m for 0 < m <= 10^9, by long division over the bytes of b, each byte bit by
\* bit (the running remainder stays below 2 m).
RECURSIVE DivByte(_, _, _, _, _)
DivByte(byte, k, r, m, q) ==
    IF k = 0 THEN [q |-> q, r |-> r]
    ELSE With(2 * r + ((byte \div Pow2(k - 1)) % 2), LAMBDA r2 :
             IF r2 >= m THEN DivByte(byte, k - 1, r2 - m, m, 2 * q + 1)
             ELSE DivByte(byte, k - 1, r2, m, 2 * q))

RECURSIVE DivSmall(_, _, _)
DivSmall(b, m, r) ==
    IF b = <<>> THEN <<>>
    ELSE With(DivByte(b[1], 8, r, m, 0), LAMBDA d :
             <<d.q>> \o DivSmall(Tail(b), m, d.r))

\* i64 / m, rounding towards zero.
DivSigned(b, m) ==
    IF IsNegative(b) THEN NegateBits(DivSmall(NegateBits(b, 1), m, 0), 1)
    ELSE DivSmall(b, m, 0)

\* The low 32 bits (`as u32`) of a 64-bit pattern.
Low32(b) == SubSeq(b, 5, 8)

\* A u32 below 2^31 as a number.
U32Value(b) == b[1] * 16777216 + b[2] * 65536 + b[3] * 256 + b[4]

U32Below(b, n) == b[1] < 128 /\ U32Value(b) < n

(***************************************************************************)
(* parse.rs: NaiveTime (TimeSpan) and NaiveDateTime (DateTime).            *)
(***************************************************************************)
\* NaiveTime::from_hms_nano_opt: the time as [secs, frac], or <<>>.
FromHmsNanoOpt(hour, min, sec, nano) ==
    IF U32Below(hour, 24) /\ U32Below(min, 60) /\ U32Below(sec, 60)
          /\ U32Below(nano, 2000000000)
    THEN <<[secs |-> U32Value(hour) * 3600 + U32Value(min) * 60 + U32Value(sec),
            frac |-> U32Value(nano)]>>
    ELSE <<>>

ParseNaiveTime(R, p) ==
    Bind(ParseI64(R, p), LAMBDA r :
    With(UnsignedAbs(r.v), LAMBDA hundred_nanoseconds :
    With(MulSmall(hundred_nanoseconds, 100, 0), LAMBDA product :
    With(Low32(product.bytes), LAMBDA nano :
    With(Low32(DivSmall(hundred_nanoseconds, 1000000000, 0)), LAMBDA sec :
    With(DivSmall(sec, 60, 0), LAMBDA min :
    With(DivSmall(min, 60, 0), LAMBDA hour :
    With(FromHmsNanoOpt(hour, min, sec, nano), LAMBDA time :
        IF product.carry # 0 /\ R.overflow_checks THEN Fail("panic", 0, r.p)
        ELSE IF time = <<>> THEN Fail("InvalidTimeSpan", 0, r.p)
        ELSE Ok(time[1], r.p)))))))))

\* NaiveDateTime::from_timestamp_micros: every i64 / 10 is in its range; the value
\* is the count of microseconds.
ParseNaiveDateTime(R, p) ==
    Bind(ParseU64(R, p), LAMBDA r :
    With(SubSeq(r.v, 1, 7) \o <<r.v[8] - (r.v[8] % 4)>>, LAMBDA hundred_nanoseconds :
        Ok(DivSigned(hundred_nanoseconds, 10), r.p)))

(***************************************************************************)
(* enums.rs: Primitive.  A Primitive is [variant, n, b]: the variant's     *)
(* name, and its value as a number n (bool, u8, char, i16, i32, i8, u16;   *)
(* the seconds of a TimeSpan) or as a sequence b (the bytes of a String or *)
(* Decimal, the bit pattern of a Double, Int64, Single, UInt32, UInt64,    *)
(* the microseconds of a DateTime, the nanoseconds of a TimeSpan).         *)
(***************************************************************************)
Num(variant, n) == [variant |-> variant, n |-> n, b |-> <<>>]

Bits(variant, b) == [variant |-> variant, n |-> 0, b |-> b]

\* Primitive::get_type
GetType(value) == PrimitiveType[value.variant]

\* The variant a PrimitiveType selects in a `match primitive_type`.
VariantOf(primitive_type) ==
    CHOOSE f \in DOMAIN PrimitiveType : PrimitiveType[f] = primitive_type

\* `Self::Variant(reader.parse()?)`
Wrap(r, variant, numeric) ==
    Bind(r, LAMBDA value :
        Ok(IF numeric THEN Num(variant, value.v) ELSE Bits(variant, value.v), value.p))

\* ParseFromTyped<R, PrimitiveType> for Primitive
ParsePrimitive(R, p, primitive_type) ==
    With(VariantOf(primitive_type), LAMBDA variant :
        CASE variant = "Boolean" ->
               Bind(ParseU8(R, p), LAMBDA r :
                   Ok(Num("Boolean", IF r.v > 0 THEN 1 ELSE 0), r.p))
          [] variant = "Byte"     -> Wrap(ParseU8(R, p), variant, TRUE)
          [] variant = "Char"     -> Wrap(ParseChar(R, p), variant, TRUE)
          [] variant = "Decimal"  -> Wrap(ParseString(R, p), variant, FALSE)
          [] variant = "Double"   -> Wrap(ParseF64(R, p), variant, FALSE)
          [] variant = "Int16"    -> Wrap(ParseI16(R, p), variant, TRUE)
          [] variant = "Int32"    -> Wrap(ParseI32(R, p), variant, TRUE)
          [] variant = "Int64"    -> Wrap(ParseI64(R, p), variant, FALSE)
          [] variant = "SByte"    -> Wrap(ParseI8(R, p), variant, TRUE)
          [] variant = "Single"   -> Wrap(ParseF32(R, p), variant, FALSE)
          [] variant = "TimeSpan" ->
               Bind(ParseNaiveTime(R, p), LAMBDA r :
                   Ok([variant |-> "TimeSpan", n |-> r.v.secs, b |-> <<r.v.frac>>], r.p))
          [] variant = "DateTime" -> Wrap(ParseNaiveDateTime(R, p), variant, FALSE)
          [] variant = "UInt16"   -> Wrap(ParseU16(R, p), variant, TRUE)
          [] variant = "UInt32"   -> Wrap(ParseU32(R, p), variant, FALSE)
          [] variant = "UInt64"   -> Wrap(ParseU64(R, p), variant, FALSE)
          [] variant = "Null"     -> Ok(Num("Null", 0), p)
          [] variant = "String"   -> Wrap(ParseString(R, p), variant, FALSE))

(***************************************************************************)
(* unparse.rs.  The writer is an in-memory buffer: a write ends with the   *)
(* bytes it wrote, or panics after the bytes written before the panic.     *)
(***************************************************************************)
Written(out) == [panic |-> FALSE, out |-> out]

Panicked == [panic |-> TRUE, out |-> <<>>]

\* `a?; b`
Then(a, b) == IF a.panic THEN a ELSE [panic |-> b.panic, out |-> a.out \o b.out]

UnparseU8(v) == Written(<<v>>)

UnparseU16(v) == Written(<<v % 256, v \div 256>>)

\* u32 and u64 (and f32, f64 through to_bits): to_le_bytes of the bit pattern.
UnparseBits(b) == Written(Reverse(b))

\* UnparseTo for f32: self.to_le_bytes()
UnparseF32(b) == UnparseBits(b)

\* A write of f64 that turns every NaN into the NaN 7FF8000000000000.
UnparseF64_QuietNaN(b) ==
    UnparseBits(IF /\ b[1] % 128 = 127
                   /\ b[2] >= 240
                   /\ (b[2] > 240 \/ \E i \in 3..8 : b[i] # 0)
                THEN <<127, 248, 0, 0, 0, 0, 0, 0>> ELSE b)

\* UnparseTo for f64: self.to_le_bytes()
UnparseF64(b) == UnparseBits(b)

UnparseI8(v) == UnparseU8(IF v < 0 THEN v + 256 ELSE v)

UnparseI16(v) == UnparseU16(IF v < 0 THEN v + 65536 ELSE v)

\* i32 as u32: the bit pattern, most significant byte first.
I32AsU32(v) ==
    LET x == IF v < 0 THEN (v + 2147483647) + 1 ELSE v      \* the low 31 bits
    IN  <<(x \div 16777216) + (IF v < 0 THEN 128 ELSE 0),
          (x \div 65536) % 256, (x \div 256) % 256, x % 256>>

UnparseI32(v) == UnparseBits(I32AsU32(v))

\* char::encode_utf8
EncodeUtf8(c) ==
    IF c < 128 THEN <<c>>
    ELSE IF c < 2048 THEN <<192 + (c \div 64), 128 + (c % 64)>>
    ELSE IF c < 65536
         THEN <<224 + (c \div 4096), 128 + ((c \div 64) % 64), 128 + (c % 64)>>
    ELSE <<240 + (c \div 262144), 128 + ((c \div 4096) % 64), 128 + ((c \div 64) % 64),
           128 + (c % 64)>>

UnparseChar(c) == Written(EncodeUtf8(c))

\* for _ in 0..5: the length prefix of a string of `length` bytes.
RECURSIVE LengthPrefix(_, _)
LengthPrefix(length, i) ==
    IF i = 5 THEN <<>>
    ELSE IF length \div 128 = 0 THEN <<length % 128>>
    ELSE <<(length % 128) + 128>> \o LengthPrefix(length \div 128, i + 1)

UnparseStr(s) == Written(LengthPrefix(Len(s), 0) \o s)

\* UnparseNaiveTime writing eight bytes of ticks.
UnparseNaiveTime_Ticks(v) == Written(<<0, 0, 0, 0, 0, 0, 0, 0>>)

\* UnparseTo for NaiveTime and for NaiveDateTime: todo!()
UnparseNaiveTime(v) == Panicked

UnparseNaiveDateTime(v) == Panicked

\* UnparseTo for Primitive
UnparsePrimitive(value) ==
    LET variant == value.variant
    IN  CASE variant = "Boolean"  -> UnparseU8(value.n)
          [] variant = "Byte"     -> UnparseU8(value.n)
          [] variant = "Char"     -> UnparseChar(value.n)
          [] variant = "Decimal"  -> UnparseStr(value.b)
          [] variant = "Double"   -> UnparseF64(value.b)
          [] variant = "Int16"    -> UnparseI16(value.n)
          [] variant = "Int32"    -> UnparseI32(value.n)
          [] variant = "Int64"    -> UnparseBits(value.b)
          [] variant = "SByte"    -> UnparseI8(value.n)
          [] variant = "Single"   -> UnparseF32(value.b)
          [] variant = "TimeSpan" -> UnparseNaiveTime(value)
          [] variant = "DateTime" -> UnparseNaiveDateTime(value)
          [] variant = "UInt16"   -> UnparseU16(value.n)
          [] variant = "UInt32"   -> UnparseBits(value.b)
          [] variant = "UInt64"   -> UnparseBits(value.b)
          [] variant = "Null"     -> Written(<<>>)
          [] variant = "String"   -> UnparseStr(value.b)

\* UnparseTo for Vec<Primitive>
RECURSIVE UnparsePrimitives(_)
UnparsePrimitives(values) ==
    IF values = <<>> THEN Written(<<>>)
    ELSE Then(UnparsePrimitive(Head(values)), UnparsePrimitives(Tail(values)))

\* UnparseTo for Vec<i32>
RECURSIVE UnparseI32s(_)
UnparseI32s(values) ==
    IF values = <<>> THEN Written(<<>>)
    ELSE Then(UnparseI32(Head(values)), UnparseI32s(Tail(values)))

\* UnparseTo for Vec<String>
RECURSIVE UnparseStrs(_)
UnparseStrs(values) ==
    IF values = <<>> THEN Written(<<>>)
    ELSE Then(UnparseStr(Head(values)), UnparseStrs(Tail(values)))

\* UnparseTo for Vec<BinaryType>
UnparseBytes(values) == Written(values)

(***************************************************************************)
(* common.rs: the composite structs, parsing.                              *)
(***************************************************************************)
\* ValueWithCode
ParseValueWithCode(R, p) ==
    Bind(ParsePrimitiveType(R, p), LAMBDA primitive_type :
        ParsePrimitive(R, primitive_type.p, primitive_type.v))

ParseElement(kind, R, p) ==
    CASE kind = "i32"           -> ParseI32(R, p)
      [] kind = "String"        -> ParseString(R, p)
      [] kind = "BinaryType"    -> ParseBinaryType(R, p)
      [] kind = "ValueWithCode" -> ParseValueWithCode(R, p)

\* ParseFromSized for Vec<T>, and the loops `for _ in 0..count { push(parse()?) }`.
RECURSIVE ParseVec(_, _, _, _)
ParseVec(kind, R, p, size) ==
    IF size <= 0 THEN Ok(<<>>, p)
    ELSE Bind(ParseElement(kind, R, p), LAMBDA r :
         Bind(ParseVec(kind, R, r.p, size - 1), LAMBDA rest :
             Ok(<<r.v>> \o rest.v, rest.p)))

\* `for _ in 0..length { members.push(reader.parse_typed(primitive_type)?) }`
RECURSIVE ParsePrimitives(_, _, _, _)
ParsePrimitives(R, p, primitive_type, length) ==
    IF length <= 0 THEN Ok(<<>>, p)
    ELSE Bind(ParsePrimitive(R, p, primitive_type), LAMBDA r :
         Bind(ParsePrimitives(R, r.p, primitive_type, length - 1), LAMBDA rest :
             Ok(<<r.v>> \o rest.v, rest.p)))

ParseClassInfo(R, p) ==
    Bind(ParseI32(R, p), LAMBDA object_id :
    Bind(ParseString(R, object_id.p), LAMBDA name :
    Bind(ParseI32(R, name.p), LAMBDA member_count :
    Bind(ParseVec("String", R, member_count.p, member_count.v), LAMBDA member_names :
        Ok([object_id |-> object_id.v, name |-> name.v,
            member_count |-> member_count.v, member_names |-> member_names.v],
           member_names.p)))))

ParseClassTypeInfo(R, p) ==
    Bind(ParseString(R, p), LAMBDA type_name :
    Bind(ParseI32(R, type_name.p), LAMBDA library_id :
        Ok([type_name |-> type_name.v, library_id |-> library_id.v], library_id.p)))

\* The parse with a String member given the additional info of an Int32 member.
ParseAdditionalInfo_ForString(R, p, enum_type) ==
    CASE enum_type = BinaryType.Primitive_ ->
           Bind(ParsePrimitiveType(R, p), LAMBDA r :
               Ok(<<[a |-> "Primitive", t |-> r.v]>>, r.p))
      [] enum_type = BinaryType.PrimitiveArray ->
           Bind(ParsePrimitiveType(R, p), LAMBDA r :
               Ok(<<[a |-> "PrimitiveArray", t |-> r.v]>>, r.p))
      [] enum_type = BinaryType.SystemClass ->
           Bind(ParseString(R, p), LAMBDA r :
               Ok(<<[a |-> "SystemClass", name |-> r.v]>>, r.p))
      [] enum_type = BinaryType.Class ->
           Bind(ParseClassTypeInfo(R, p), LAMBDA r :
               Ok(<<[a |-> "Class", info |-> r.v]>>, r.p))
      [] enum_type = BinaryType.String ->
           Ok(<<[a |-> "Primitive", t |-> PrimitiveType.Int32]>>, p)
      [] OTHER -> Ok(<<>>, p)

\* ParseFromTyped<R, BinaryType> for Option<AdditionalInfo>
ParseAdditionalInfo(R, p, enum_type) ==
    CASE enum_type = BinaryType.Primitive_ ->
           Bind(ParsePrimitiveType(R, p), LAMBDA r :
               Ok(<<[a |-> "Primitive", t |-> r.v]>>, r.p))
      [] enum_type = BinaryType.PrimitiveArray ->
           Bind(ParsePrimitiveType(R, p), LAMBDA r :
               Ok(<<[a |-> "PrimitiveArray", t |-> r.v]>>, r.p))
      [] enum_type = BinaryType.SystemClass ->
           Bind(ParseString(R, p), LAMBDA r :
               Ok(<<[a |-> "SystemClass", name |-> r.v]>>, r.p))
      [] enum_type = BinaryType.Class ->
           Bind(ParseClassTypeInfo(R, p), LAMBDA r :
               Ok(<<[a |-> "Class", info |-> r.v]>>, r.p))
      [] OTHER -> Ok(<<>>, p)

\* `for member_type in types { if let Some(info) = parse_typed(member_type)? { push } }`
RECURSIVE ParseAdditionalInfos(_, _, _)
ParseAdditionalInfos(R, p, types) ==
    IF types = <<>> THEN Ok(<<>>, p)
    ELSE Bind(ParseAdditionalInfo(R, p, Head(types)), LAMBDA r :
         Bind(ParseAdditionalInfos(R, r.p, Tail(types)), LAMBDA rest :
             Ok(r.v \o rest.v, rest.p)))

\* ParseFromSized for MemberTypeInfo
ParseMemberTypeInfo(R, p, member_count) ==
    Bind(ParseVec("BinaryType", R, p, member_count), LAMBDA member_types :
    Bind(ParseAdditionalInfos(R, member_types.p, member_types.v), LAMBDA additional_info :
        Ok([member_types |-> member_types.v, additional_info |-> additional_info.v],
           additional_info.p)))

ParseArrayInfo(R, p) ==
    Bind(ParseI32(R, p), LAMBDA object_id :
    Bind(ParseI32(R, object_id.p), LAMBDA length :
        Ok([object_id |-> object_id.v, length |-> length.v], length.p)))

\* StringValueWithCode: assert_eq!(reader.parse::<u8>()?, BinaryType::String as u8)
ParseStringValueWithCode(R, p) ==
    Bind(ParseU8(R, p), LAMBDA tag :
        IF tag.v # BinaryType.String THEN Fail("panic", tag.v, tag.p)
        ELSE ParseString(R, tag.p))

ParseArrayOfValueWithCode(R, p) ==
    Bind(ParseI32(R, p), LAMBDA length :
        ParseVec("ValueWithCode", R, length.p, AsUsize(length.v, R)))

\* The bit `flag` of the u32 read (flags are below 2^16).
FlagSet(int, flag) == (((int[3] * 256 + int[4]) \div flag) % 2) = 1

MessageFlagEnum ==
    [no_args |-> 1, args_inline |-> 2, args_is_array |-> 4, args_in_array |-> 8,
     no_context |-> 16, context_inline |-> 32, context_in_array |-> 64,
     method_signature_in_array |-> 128, properties_in_array |-> 256,
     no_return_value |-> 512, return_value_void |-> 1024, return_value_inline |-> 2048,
     return_value_in_array |-> 4096, exception_in_array |-> 8192,
     generic_method |-> 32768]

ParseMessageFlags(R, p) ==
    Bind(ParseU32(R, p), LAMBDA int :
        Ok([f \in DOMAIN MessageFlagEnum |-> FlagSet(int.v, MessageFlagEnum[f])], int.p))

\* `if self.flag { int |= MessageFlagEnum::Flag }`: the bits are distinct, so each
\* `|=` adds the bit to int.
OrAssign(flags, f) == IF flags[f] THEN MessageFlagEnum[f] ELSE 0

\* The u32 of UnparseMessageFlags with generic_method written as the bit 0x4000.
FlagsInt_Generic4000(flags) ==
    OrAssign(flags, "no_args") + OrAssign(flags, "args_inline")
    + OrAssign(flags, "args_is_array") + OrAssign(flags, "args_in_array")
    + OrAssign(flags, "no_context") + OrAssign(flags, "context_inline")
    + OrAssign(flags, "context_in_array") + OrAssign(flags, "method_signature_in_array")
    + OrAssign(flags, "properties_in_array") + OrAssign(flags, "no_return_value")
    + OrAssign(flags, "return_value_void") + OrAssign(flags, "return_value_inline")
    + OrAssign(flags, "return_value_in_array") + OrAssign(flags, "exception_in_array")
    + (IF flags.generic_method THEN 16384 ELSE 0)

\* `let mut int: u32 = 0` after the fifteen `if`s of UnparseTo for MessageFlags.
FlagsInt(flags) ==
    OrAssign(flags, "no_args") + OrAssign(flags, "args_inline")
    + OrAssign(flags, "args_is_array") + OrAssign(flags, "args_in_array")
    + OrAssign(flags, "no_context") + OrAssign(flags, "context_inline")
    + OrAssign(flags, "context_in_array") + OrAssign(flags, "method_signature_in_array")
    + OrAssign(flags, "properties_in_array") + OrAssign(flags, "no_return_value")
    + OrAssign(flags, "return_value_void") + OrAssign(flags, "return_value_inline")
    + OrAssign(flags, "return_value_in_array") + OrAssign(flags, "exception_in_array")
    + OrAssign(flags, "generic_method")

\* UnparseTo for MessageFlags: writer.unparse(int)
UnparseMessageFlags(flags) ==
    With(FlagsInt(flags), LAMBDA int :
        UnparseBits(<<0, 0, int \div 256, int % 256>>))

(***************************************************************************)
(* records.rs and enums.rs: the records, parsing.  A record is             *)
(* [k |-> the Record variant's name, ...the variant's fields].             *)
(***************************************************************************)
ParseSerializationHeader(R, p) ==
    Bind(ParseI32(R, p), LAMBDA root_id :
    Bind(ParseI32(R, root_id.p), LAMBDA header_id :
    Bind(ParseI32(R, header_id.p), LAMBDA major_version :
    Bind(ParseI32(R, major_version.p), LAMBDA minor_version :
        Ok([k |-> "SerializationHeader", root_id |-> root_id.v,
            header_id |-> header_id.v, major_version |-> major_version.v,
            minor_version |-> minor_version.v], minor_version.p)))))

ParseBinaryLibrary(R, p) ==
    Bind(ParseI32(R, p), LAMBDA library_id :
    Bind(ParseString(R, library_id.p), LAMBDA library_name :
        Ok([k |-> "BinaryLibrary", library_id |-> library_id.v,
            library_name |-> library_name.v], library_name.p)))

ParseClassWithId(R, p) ==
    Bind(ParseI32(R, p), LAMBDA object_id :
    Bind(ParseI32(R, object_id.p), LAMBDA metadata_id :
        Ok([k |-> "ClassWithId", object_id |-> object_id.v,
            metadata_id |-> metadata_id.v], metadata_id.p)))

ParseBinaryObjectString(R, p) ==
    Bind(ParseI32(R, p), LAMBDA object_id :
    Bind(ParseString(R, object_id.p), LAMBDA value :
        Ok([k |-> "BinaryObjectString", object_id |-> object_id.v, value |-> value.v],
           value.p)))

ParseArraySinglePrimitive(R, p) ==
    Bind(ParseArrayInfo(R, p), LAMBDA array_info :
    Bind(ParsePrimitiveType(R, array_info.p), LAMBDA primitive_type :
    Bind(ParsePrimitives(R, primitive_type.p, primitive_type.v, array_info.v.length),
         LAMBDA members :
        Ok([k |-> "ArraySinglePrimitive", array_info |-> array_info.v,
            primitive_type |-> primitive_type.v, members |-> members.v], members.p))))

ParseArraySingleString(R, p) ==
    Bind(ParseArrayInfo(R, p), LAMBDA array_info :
    Bind(ParseVec("String", R, array_info.p, AsUsize(array_info.v.length, R)),
         LAMBDA members :
        Ok([k |-> "ArraySingleString", array_info |-> array_info.v,
            members |-> members.v], members.p)))

\* `if flag { Some(reader.parse()?) } else { None }`, r being the parse from p
Optional(flag, r, p) ==
    IF ~flag THEN Ok(<<>>, p) ELSE Bind(r, LAMBDA value : Ok(<<value.v>>, value.p))

ParseBinaryMethodCall(R, p) ==
    Bind(ParseMessageFlags(R, p), LAMBDA message_flags :
    Bind(ParseStringValueWithCode(R, message_flags.p), LAMBDA method_name :
    Bind(ParseStringValueWithCode(R, method_name.p), LAMBDA type_name :
    Bind(Optional(message_flags.v.context_inline,
                  ParseStringValueWithCode(R, type_name.p), type_name.p),
         LAMBDA call_context :
    Bind(Optional(message_flags.v.args_inline,
                  ParseArrayOfValueWithCode(R, call_context.p), call_context.p),
         LAMBDA args :
        Ok([k |-> "MethodCall", message_flags |-> message_flags.v,
            method_name |-> method_name.v, type_name |-> type_name.v,
            call_context |-> call_context.v, args |-> args.v], args.p))))))

ParseBinaryMethodReturn(R, p) ==
    Bind(ParseMessageFlags(R, p), LAMBDA message_flags :
    Bind(Optional(message_flags.v.return_value_inline,
                  ParseValueWithCode(R, message_flags.p), message_flags.p),
         LAMBDA return_value :
    Bind(Optional(message_flags.v.context_inline,
                  ParseStringValueWithCode(R, return_value.p), return_value.p),
         LAMBDA call_context :
    Bind(Optional(message_flags.v.args_inline,
                  ParseArrayOfValueWithCode(R, call_context.p), call_context.p),
         LAMBDA args :
        Ok([k |-> "MethodReturn", message_flags |-> message_flags.v,
            return_value |-> return_value.v, call_context |-> call_context.v,
            args |-> args.v], args.p)))))

RECURSIVE ParseRecord(_, _, _)
RECURSIVE ReadReferences(_, _, _)

\* The body of the loop of read_references: the member an additional_info entry
\* announces.
ReadReference(R, p, info) ==
    IF info.a = "Primitive"
    THEN Bind(ParsePrimitive(R, p, info.t), LAMBDA value :
             Ok([k |-> "MemberPrimitiveUnTyped", prim |-> value.v], value.p))
    ELSE Bind(ParseRecordType(R, p), LAMBDA record_type :
             ParseRecord(R, record_type.p, record_type.v))

\* read_references: one member value per entry of additional_info.
ReadReferences(R, p, additional_info) ==
    IF additional_info = <<>> THEN Ok(<<>>, p)
    ELSE Bind(ReadReference(R, p, Head(additional_info)), LAMBDA member :
         Bind(ReadReferences(R, member.p, Tail(additional_info)), LAMBDA rest :
             Ok(<<member.v>> \o rest.v, rest.p)))

ParseClassWithMembersAndTypes(R, p) ==
    Bind(ParseClassInfo(R, p), LAMBDA class_info :
    Bind(ParseMemberTypeInfo(R, class_info.p, AsUsize(class_info.v.member_count, R)),
         LAMBDA member_type_info :
    Bind(ParseI32(R, member_type_info.p), LAMBDA library_id :
    Bind(ReadReferences(R, library_id.p, member_type_info.v.additional_info),
         LAMBDA member_references :
        Ok([k |-> "ClassWithMembersAndTypes", class_info |-> class_info.v,
            member_type_info |-> member_type_info.v, library_id |-> library_id.v,
            member_references |-> member_references.v], member_references.p)))))

ParseSystemClassWithMembersAndTypes(R, p) ==
    Bind(ParseClassInfo(R, p), LAMBDA class_info :
    Bind(ParseMemberTypeInfo(R, class_info.p, AsUsize(class_info.v.member_count, R)),
         LAMBDA member_type_info :
    Bind(ReadReferences(R, member_type_info.p, member_type_info.v.additional_info),
         LAMBDA member_references :
        Ok([k |-> "SystemClassWithMembersAndTypes", class_info |-> class_info.v,
            member_type_info |-> member_type_info.v,
            member_references |-> member_references.v], member_references.p))))

\* `for _ in 0..rank { if let Some(info) = reader.parse_typed(binary_type)? { push } }`
RECURSIVE ParseRankInfos(_, _, _, _)
ParseRankInfos(R, p, binary_type, rank) ==
    IF rank <= 0 THEN Ok(<<>>, p)
    ELSE Bind(ParseAdditionalInfo(R, p, binary_type), LAMBDA r :
         Bind(ParseRankInfos(R, r.p, binary_type, rank - 1), LAMBDA rest :
             Ok(r.v \o rest.v, rest.p)))

ParseBinaryArray(R, p) ==
    Bind(ParseI32(R, p), LAMBDA object_id :
    Bind(ParseBinaryArrayType(R, object_id.p), LAMBDA binary_array_type :
    Bind(ParseI32(R, binary_array_type.p), LAMBDA rank :
    Bind(ParseVec("i32", R, rank.p, AsUsize(rank.v, R)), LAMBDA lengths :
    Bind(Optional(binary_array_type.v \in {BinaryArrayType.SingleOffset,
                                           BinaryArrayType.JaggedOffset,
                                           BinaryArrayType.RectangularOffset},
                  ParseVec("i32", R, lengths.p, AsUsize(rank.v, R)), lengths.p),
         LAMBDA lower_bounds :
    Bind(ParseBinaryType(R, lower_bounds.p), LAMBDA binary_type :
    Bind(ParseRankInfos(R, binary_type.p, binary_type.v, rank.v), LAMBDA additional_info :
    Bind(ReadReferences(R, additional_info.p, additional_info.v), LAMBDA members :
        Ok([k |-> "BinaryArray", object_id |-> object_id.v,
            binary_array_type |-> binary_array_type.v, rank |-> rank.v,
            lengths |-> lengths.v, lower_bounds |-> lower_bounds.v,
            binary_type |-> binary_type.v, additional_info |-> additional_info.v,
            members |-> members.v], members.p)))))))))

\* ParseFromTyped<R, RecordType> for Record
\* The error of a NotEnoughInfo reported as that of a tag outside the enum.
NotEnoughInfo_AsInvalid(record_type, p) == Fail("InvalidRecordType", record_type, p)

\* `other => Err(ParseError::NotEnoughInfo(other))?`
NotEnoughInfo(record_type, p) == Fail("NotEnoughInfo", record_type, p)

ParseRecord(R, p, record_type) ==
    CASE record_type = RecordType.SerializedStreamHeader -> ParseSerializationHeader(R, p)
      [] record_type = RecordType.ClassWithId -> ParseClassWithId(R, p)
      [] record_type = RecordType.SystemClassWithMembersAndTypes ->
           ParseSystemClassWithMembersAndTypes(R, p)
      [] record_type = RecordType.ClassWithMembersAndTypes ->
           ParseClassWithMembersAndTypes(R, p)
      [] record_type = RecordType.BinaryObjectString -> ParseBinaryObjectString(R, p)
      [] record_type = RecordType.BinaryArray -> ParseBinaryArray(R, p)
      [] record_type = RecordType.MemberTypedPrimitive ->
           Bind(ParsePrimitiveType(R, p), LAMBDA primitive_type :
           Bind(ParsePrimitive(R, primitive_type.p, primitive_type.v), LAMBDA value :
               Ok([k |-> "MemberTypedPrimitive", value |-> value.v], value.p)))
      [] record_type = RecordType.MemberReference ->
           Bind(ParseI32(R, p), LAMBDA id : Ok([k |-> "MemberReference", id |-> id.v], id.p))
      [] record_type = RecordType.ObjectNull -> Ok([k |-> "ObjectNull"], p)
      [] record_type = RecordType.MessageEnd -> Ok([k |-> "MessageEnd"], p)
      [] record_type = RecordType.ObjectNullMultiple256 ->
           Bind(ParseU8(R, p), LAMBDA null_count :
               Ok([k |-> "ObjectNullMultiple256", null_count |-> null_count.v],
                  null_count.p))
      [] record_type = RecordType.ObjectNullMultiple ->
           Bind(ParseI32(R, p), LAMBDA null_count :
               Ok([k |-> "ObjectNullMultiple", null_count |-> null_count.v],
                  null_count.p))
      [] record_type = RecordType.BinaryLibrary -> ParseBinaryLibrary(R, p)
      [] record_type = RecordType.ArraySinglePrimitive -> ParseArraySinglePrimitive(R, p)
      [] record_type = RecordType.ArraySingleString -> ParseArraySingleString(R, p)
      [] record_type = RecordType.MethodCall -> ParseBinaryMethodCall(R, p)
      [] record_type = RecordType.MethodReturn -> ParseBinaryMethodReturn(R, p)
      [] OTHER -> NotEnoughInfo(record_type, p)

\* ParseFrom for Vec<Record> with a `break` after the first record, whatever it is.
ParseRecords_OneRecord(R, p) ==
    Bind(ParseRecordType(R, p), LAMBDA record_type :
    Bind(ParseRecord(R, record_type.p, record_type.v), LAMBDA record :
        Ok(<<record.v>>, record.p)))

\* ParseFrom for Vec<Record>: the loop that ends at the first MessageEnd.
RECURSIVE ParseRecords(_, _)
ParseRecords(R, p) ==
    Bind(ParseRecordType(R, p), LAMBDA record_type :
    Bind(ParseRecord(R, record_type.p, record_type.v), LAMBDA record :
        IF record.v.k = "MessageEnd" THEN Ok(<<record.v>>, record.p)
        ELSE Bind(ParseRecords(R, record.p), LAMBDA rest :
                 Ok(<<record.v>> \o rest.v, rest.p))))

(***************************************************************************)
(* common.rs, records.rs and enums.rs: unparsing.                          *)
(***************************************************************************)
UnparseClassInfo(class_info) ==
    Then(UnparseI32(class_info.object_id),
    Then(UnparseStr(class_info.name),
    Then(UnparseI32(class_info.member_count),
         UnparseStrs(class_info.member_names))))

UnparseClassTypeInfo(info) ==
    Then(UnparseStr(info.type_name), UnparseI32(info.library_id))

\* UnparseTo for AdditionalInfo
UnparseAdditionalInfo(info) ==
    CASE info.a = "Primitive"      -> UnparseU8(info.t)
      [] info.a = "PrimitiveArray" -> UnparseU8(info.t)
      [] info.a = "Class"          -> UnparseClassTypeInfo(info.info)
      [] info.a = "SystemClass"    -> UnparseStr(info.name)

RECURSIVE UnparseAdditionalInfos(_)
UnparseAdditionalInfos(infos) ==
    IF infos = <<>> THEN Written(<<>>)
    ELSE Then(UnparseAdditionalInfo(Head(infos)), UnparseAdditionalInfos(Tail(infos)))

UnparseMemberTypeInfo(member_type_info) ==
    Then(UnparseBytes(member_type_info.member_types),
         UnparseAdditionalInfos(member_type_info.additional_info))

UnparseArrayInfo(array_info) ==
    Then(UnparseI32(array_info.object_id), UnparseI32(array_info.length))

UnparseSerializationHeader(header) ==
    Then(UnparseU8(RecordType.SerializedStreamHeader),
    Then(UnparseI32(header.root_id),
    Then(UnparseI32(header.header_id),
    Then(UnparseI32(header.major_version),
         UnparseI32(header.minor_version)))))

\* UnparseBinaryLibrary with the two fields in the other order.
UnparseBinaryLibrary_NameFirst(library) ==
    Then(UnparseU8(RecordType.BinaryLibrary),
    Then(UnparseStr(library.library_name),
         UnparseI32(library.library_id)))

UnparseBinaryLibrary(library) ==
    Then(UnparseU8(RecordType.BinaryLibrary),
    Then(UnparseI32(library.library_id),
         UnparseStr(library.library_name)))

UnparseArraySinglePrimitive(array) ==
    Then(UnparseU8(RecordType.ArraySinglePrimitive),
    Then(UnparseArrayInfo(array.array_info),
    Then(UnparseU8(array.primitive_type),
         UnparsePrimitives(array.members))))

UnparseClassWithId(class) ==
    Then(UnparseU8(RecordType.ClassWithId),
    Then(UnparseI32(class.object_id),
         UnparseI32(class.metadata_id)))

RECURSIVE UnparseRecord(_)
RECURSIVE UnparseRecords(_)

UnparseClassWithMembersAndTypes(class) ==
    Then(UnparseU8(RecordType.ClassWithMembersAndTypes),
    Then(UnparseClassInfo(class.class_info),
    Then(UnparseMemberTypeInfo(class.member_type_info),
    Then(UnparseI32(class.library_id),
         UnparseRecords(class.member_references)))))

\* UnparseTo for Record, for the records the Stream layer holds.
UnparseRecord(record) ==
    CASE record.k = "SerializationHeader" -> UnparseSerializationHeader(record)
      [] record.k = "ClassWithId" -> UnparseClassWithId(record)
      [] record.k = "ClassWithMembersAndTypes" -> UnparseClassWithMembersAndTypes(record)
      [] record.k = "MemberReference" ->
           Then(UnparseU8(RecordType.MemberReference), UnparseI32(record.id))
      [] record.k = "ObjectNull" -> UnparseU8(RecordType.ObjectNull)
      [] record.k = "MessageEnd" -> UnparseU8(RecordType.MessageEnd)
      [] record.k = "BinaryLibrary" -> UnparseBinaryLibrary(record)
      [] record.k = "ArraySinglePrimitive" -> UnparseArraySinglePrimitive(record)
      [] record.k = "MemberPrimitiveUnTyped" -> UnparsePrimitive(record.prim)
      [] record.k = "MemberTypedPrimitive" ->
           Then(UnparseU8(RecordType.MemberTypedPrimitive),
           Then(UnparseU8(GetType(record.value)), UnparsePrimitive(record.value)))

\* UnparseTo for Vec<Record>
UnparseRecords(values) ==
    IF values = <<>> THEN Written(<<>>)
    ELSE Then(UnparseRecord(Head(values)), UnparseRecords(Tail(values)))

(***************************************************************************)
(* stream.rs: the user model.                                              *)
(*   Class           [library_name, name, fields]; fields, an IndexMap, is *)
(*                   the sequence of its entries [name, value] in          *)
(*                   insertion order, no name twice                        *)
(*   Field           [f |-> "Primitive", primitive], [f |-> "PrimitiveArray",*)
(*                   array] or [f |-> "Class", class]                      *)
(*   PrimitiveArray  [variant, items]: items are the bare values [n, b];   *)
(*                   Null has no items                                     *)
(***************************************************************************)
\* PrimitiveArray::get_type
ArrayGetType(array) == PrimitiveType[array.variant]

\* From<PrimitiveArray> for Vec<Primitive>: from_field! wraps each value in the
\* Primitive variant; Null gives vec![].
FromField(array) ==
    IF array.variant = "Null" THEN <<>>
    ELSE [i \in 1..Len(array.items) |->
            [variant |-> array.variant, n |-> array.items[i].n, b |-> array.items[i].b]]

\* into_field giving Self::Null for every array without members.
IntoField_NullWhenEmpty(array, primitive_type) ==
    With(VariantOf(primitive_type), LAMBDA variant :
        IF variant = "Null" \/ array = <<>>
        THEN [panic |-> FALSE, v |-> [variant |-> "Null", items |-> <<>>]]
        ELSE IF \E i \in 1..Len(array) : array[i].variant # variant
             THEN [panic |-> TRUE, v |-> <<>>]
        ELSE [panic |-> FALSE,
              v |-> [variant |-> variant,
                     items |-> [i \in 1..Len(array) |-> [n |-> array[i].n, b |-> array[i].b]]]])

\* PrimitiveArray::into_field: into_field! unwraps each Primitive of the variant
\* and is unreachable!() on any other; Null gives Self::Null whatever the members.
IntoField(array, primitive_type) ==
    With(VariantOf(primitive_type), LAMBDA variant :
        IF variant = "Null" THEN [panic |-> FALSE, v |-> [variant |-> "Null", items |-> <<>>]]
        ELSE IF \E i \in 1..Len(array) : array[i].variant # variant
             THEN [panic |-> TRUE, v |-> <<>>]
        ELSE [panic |-> FALSE,
              v |-> [variant |-> variant,
                     items |-> [i \in 1..Len(array) |-> [n |-> array[i].n, b |-> array[i].b]]]])

(***************************************************************************)
(* stream.rs: StreamEncoderState.  libraries, a BTreeMap<String, i32>, is  *)
(* the sequence of its entries [name, id] in the order the map iterates:   *)
(* ascending by key, the Ord of String (bytewise, a prefix first).         *)
(***************************************************************************)
RECURSIVE StrLess(_, _)
StrLess(a, b) ==
    IF b = <<>> THEN FALSE
    ELSE IF a = <<>> THEN TRUE
    ELSE IF Head(a) # Head(b) THEN Head(a) < Head(b)
    ELSE StrLess(Tail(a), Tail(b))

\* An insert that keeps the entry of an existing key and adds another.
RECURSIVE MapInsert_Duplicating(_, _, _)
MapInsert_Duplicating(map, key, value) ==
    IF map = <<>> THEN <<[name |-> key, id |-> value]>>
    ELSE IF StrLess(Head(map).name, key)
         THEN <<Head(map)>> \o MapInsert_Duplicating(Tail(map), key, value)
    ELSE <<[name |-> key, id |-> value]>> \o map

\* The insert of a map that iterates in insertion order.
RECURSIVE MapInsert_Appending(_, _, _)
MapInsert_Appending(map, key, value) ==
    IF map = <<>> THEN <<[name |-> key, id |-> value]>>
    ELSE IF Head(map).name = key THEN <<[name |-> key, id |-> value]>> \o Tail(map)
    ELSE <<Head(map)>> \o MapInsert_Appending(Tail(map), key, value)

\* BTreeMap::insert: the value of an existing key is replaced.
RECURSIVE MapInsert(_, _, _)
MapInsert(map, key, value) ==
    IF map = <<>> THEN <<[name |-> key, id |-> value]>>
    ELSE IF Head(map).name = key THEN <<[name |-> key, id |-> value]>> \o Tail(map)
    ELSE IF StrLess(key, Head(map).name) THEN <<[name |-> key, id |-> value]>> \o map
    ELSE <<Head(map)>> \o MapInsert(Tail(map), key, value)

\* `self.libraries[&name]`
MapIndex(map, key) == map[CHOOSE i \in 1..Len(map) : map[i].name = key].id

\* A counter that starts at 0.
StreamEncoderStateNew_FromZero == [counter |-> 0, libraries |-> <<>>]

\* StreamEncoderState::new
StreamEncoderStateNew == [counter |-> 1, libraries |-> <<>>]

\* The vectors encode_class fills, with the state.
EmptyWalk(state) ==
    [state |-> state, records |-> <<>>, member_names |-> <<>>, member_types |-> <<>>,
     additional_info |-> <<>>, member_references |-> <<>>]

RECURSIVE encode_class(_, _)
RECURSIVE EncodeFields(_, _)

\* The Field::Class arm, nested being what encode_class(value.clone()) returned.
EncodeClassField(walk, field, nested) ==
    [walk EXCEPT
       !.member_names = Append(@, field.name),
       !.records = @ \o nested.records,
       !.member_types = Append(@, BinaryType.Class),
       !.additional_info =
           Append(@, [a |-> "Class",
                      info |-> [type_name |-> field.value.class.name,
                                library_id |-> MapIndex(nested.state.libraries,
                                                        field.value.class.library_name)]]),
       !.member_references =
           Append(@, [k |-> "MemberReference", id |-> nested.state.counter]),
       !.state = [nested.state EXCEPT !.counter = @ + 1]]

\* The Field::PrimitiveArray arm without its `self.counter += 1`.
EncodeArrayField_SameId(walk, field, array) ==
    [walk EXCEPT
       !.member_names = Append(@, field.name),
       !.member_types = Append(@, BinaryType.PrimitiveArray),
       !.additional_info =
           Append(@, [a |-> "PrimitiveArray", t |-> ArrayGetType(field.value.array)]),
       !.member_references =
           Append(@, [k |-> "MemberReference", id |-> walk.state.counter]),
       !.records =
           Append(@, [k |-> "ArraySinglePrimitive",
                      array_info |-> [object_id |-> walk.state.counter,
                                      length |-> Len(array)],
                      primitive_type |-> ArrayGetType(field.value.array),
                      members |-> array])]

\* The Field::PrimitiveArray arm with the id of the record one above the reference's.
EncodeArrayField_OtherId(walk, field, array) ==
    [walk EXCEPT
       !.member_names = Append(@, field.name),
       !.member_types = Append(@, BinaryType.PrimitiveArray),
       !.additional_info =
           Append(@, [a |-> "PrimitiveArray", t |-> ArrayGetType(field.value.array)]),
       !.member_references =
           Append(@, [k |-> "MemberReference", id |-> walk.state.counter]),
       !.records =
           Append(@, [k |-> "ArraySinglePrimitive",
                      array_info |-> [object_id |-> walk.state.counter + 1,
                                      length |-> Len(array)],
                      primitive_type |-> ArrayGetType(field.value.array),
                      members |-> array]),
       !.state.counter = @ + 2]

\* The Field::PrimitiveArray arm, array being the Vec<Primitive> of the value.
EncodeArrayField(walk, field, array) ==
    [walk EXCEPT
       !.member_names = Append(@, field.name),
       !.member_types = Append(@, BinaryType.PrimitiveArray),
       !.additional_info =
           Append(@, [a |-> "PrimitiveArray", t |-> ArrayGetType(field.value.array)]),
       !.member_references =
           Append(@, [k |-> "MemberReference", id |-> walk.state.counter]),
       !.records =
           Append(@, [k |-> "ArraySinglePrimitive",
                      array_info |-> [object_id |-> walk.state.counter,
                                      length |-> Len(array)],
                      primitive_type |-> ArrayGetType(field.value.array),
                      members |-> array]),
       !.state.counter = @ + 1]

\* The Field::Primitive arm.
EncodePrimitiveField(walk, field) ==
    [walk EXCEPT
       !.member_names = Append(@, field.name),
       !.member_types = Append(@, BinaryType.Primitive_),
       !.additional_info =
           Append(@, [a |-> "Primitive", t |-> GetType(field.value.primitive)]),
       !.member_references =
           Append(@, [k |-> "MemberPrimitiveUnTyped", prim |-> field.value.primitive])]

\* The body of `for (field_name, field_value) in class.fields`, for one field.
EncodeField(walk, field) ==
    CASE field.value.f = "Primitive" -> EncodePrimitiveField(walk, field)
      [] field.value.f = "PrimitiveArray" ->
           EncodeArrayField(walk, field, FromField(field.value.array))
      [] field.value.f = "Class" ->
           EncodeClassField(walk, field, encode_class(walk.state, field.value.class))

EncodeFields(walk, fields) ==
    IF fields = <<>> THEN walk
    ELSE EncodeFields(EncodeField(walk, Head(fields)), Tail(fields))

\* The end of encode_class with the record of the class pushed after the others.
EncodeClassRecord_Last(object_id, class, walk) ==
    [records |->
        walk.records
        \o <<[k |-> "ClassWithMembersAndTypes",
              class_info |-> [object_id |-> object_id, name |-> class.name,
                              member_count |-> Len(walk.member_names),
                              member_names |-> walk.member_names],
              member_type_info |-> [member_types |-> walk.member_types,
                                    additional_info |-> walk.additional_info],
              library_id |-> MapIndex(walk.state.libraries, class.library_name),
              member_references |-> walk.member_references]>>,
     state |-> [walk.state EXCEPT !.counter = @ + 1]]

\* The end of encode_class: the record of the class goes first.
EncodeClassRecord(object_id, class, walk) ==
    [records |->
        <<[k |-> "ClassWithMembersAndTypes",
           class_info |-> [object_id |-> object_id, name |-> class.name,
                           member_count |-> Len(walk.member_names),
                           member_names |-> walk.member_names],
           member_type_info |-> [member_types |-> walk.member_types,
                                 additional_info |-> walk.additional_info],
           library_id |-> MapIndex(walk.state.libraries, class.library_name),
           member_references |-> walk.member_references]>>
        \o walk.records,
     state |-> [walk.state EXCEPT !.counter = @ + 1]]

\* The start of encode_class with the library id being the object_id.
ReserveIds_Aliasing(state, class) ==
    [counter   |-> state.counter + 2,
     libraries |-> MapInsert(state.libraries, class.library_name, state.counter)]

\* The start of encode_class: `let object_id = self.counter; self.counter += 1;
\* self.libraries.insert(class.library_name.clone(), self.counter); self.counter += 1`.
ReserveIds(state, class) ==
    [counter   |-> state.counter + 2,
     libraries |-> MapInsert(state.libraries, class.library_name, state.counter + 1)]

\* StreamEncoderState::encode_class: the records of the class, its own first, and
\* the state afterwards.
encode_class(state, class) ==
    EncodeClassRecord(
        state.counter, class,
        EncodeFields(EmptyWalk(ReserveIds(state, class)), class.fields))

\* `for (library_name, library_id) in state.libraries { records.push(...) }`
BinaryLibraries(libraries) ==
    [i \in 1..Len(libraries) |->
        [k |-> "BinaryLibrary", library_id |-> libraries[i].id,
         library_name |-> libraries[i].name]]

\* Stream::encode, up to the record list it hands to the writer.
EncodeRecords(root) ==
    With(encode_class(StreamEncoderStateNew, root), LAMBDA new_records :
        <<[k |-> "SerializationHeader", root_id |-> 1, header_id |-> -1,
           major_version |-> 1, minor_version |-> 0]>>
        \o BinaryLibraries(new_records.state.libraries)
        \o new_records.records
        \o <<[k |-> "MessageEnd"]>>)

\* Stream::encode: the records, and what `writer.unparse(records)` makes of them.
StreamEncode(root) ==
    With(EncodeRecords(root), LAMBDA recs :
    With(UnparseRecords(recs), LAMBDA w :
        [records |-> recs, panic |-> w.panic, out |-> w.out]))

(***************************************************************************)
(* stream.rs: StreamDecoderState.  objects and libraries, BTreeMaps keyed  *)
(* by an i32 and only ever looked up, are functions from the keys present. *)
(* A decoded value is [panic, v]: panic names the place of the panic, ""   *)
(* when there is none.                                                     *)
(***************************************************************************)
Insert(map, key, value) ==
    [x \in (DOMAIN map) \cup {key} |-> IF x = key THEN value ELSE map[x]]

Decoded(v) == [panic |-> "", v |-> v]

Abort(place) == [panic |-> place, v |-> <<>>]

\* The value, or the panic, then the rest of the function.
Unwind(r, K(_)) == IF r.panic # "" THEN r ELSE K(r.v)

\* IndexMap::insert for each (name, value) in turn: a name met again keeps its
\* place and takes the new value.
RECURSIVE IndexMapInsert(_, _, _)
IndexMapInsert(fields, name, value) ==
    IF fields = <<>> THEN <<[name |-> name, value |-> value]>>
    ELSE IF Head(fields).name = name THEN <<[name |-> name, value |-> value]>> \o Tail(fields)
    ELSE <<Head(fields)>> \o IndexMapInsert(Tail(fields), name, value)

\* The second loop of decode_class.
RECURSIVE CollectFields(_, _, _, _)
CollectFields(field_names, field_values, i, fields) ==
    IF i > Len(field_names) THEN fields
    ELSE CollectFields(field_names, field_values, i + 1,
                       IndexMapInsert(fields, field_names[i], field_values[i]))

RECURSIVE decode_class(_, _, _)
RECURSIVE DecodeFields(_, _, _, _, _, _)

\* `if let Record::ArraySinglePrimitive(array) = &self.objects[id] { push }`
DecodeArrayReference(state, id, field_values) ==
    IF id \notin DOMAIN state.objects THEN Abort("objects[id]")
    ELSE IF state.objects[id].k # "ArraySinglePrimitive" THEN Decoded(field_values)
    ELSE With(IntoField(state.objects[id].members, state.objects[id].primitive_type),
              LAMBDA value :
                 IF value.panic THEN Abort("unreachable")
                 ELSE Decoded(Append(field_values,
                                     [f |-> "PrimitiveArray", array |-> value.v])))

\* `if let Record::ClassWithMembersAndTypes(class) = &self.objects[id] { push }`
DecodeClassReference(state, id, field_values, visiting) ==
    IF id \notin DOMAIN state.objects THEN Abort("objects[id]")
    ELSE IF state.objects[id].k # "ClassWithMembersAndTypes" THEN Decoded(field_values)
    ELSE Unwind(decode_class(state, state.objects[id], visiting), LAMBDA class :
             Decoded(Append(field_values, [f |-> "Class", class |-> class])))

\* The body of the first loop of decode_class for a field of type field_type with
\* the member value `member`: the field_values after it (a field whose `if let`
\* does not match pushes nothing), or the panic.
DecodeField(state, field_type, member, field_values, visiting) ==
    CASE field_type = BinaryType.Primitive_ ->
           IF member.k = "MemberPrimitiveUnTyped"
           THEN Decoded(Append(field_values, [f |-> "Primitive", primitive |-> member.prim]))
           ELSE Decoded(field_values)
      [] field_type = BinaryType.PrimitiveArray ->
           IF member.k # "MemberReference" THEN Decoded(field_values)
           ELSE DecodeArrayReference(state, member.id, field_values)
      [] field_type = BinaryType.Class ->
           IF member.k # "MemberReference" THEN Decoded(field_values)
           ELSE DecodeClassReference(state, member.id, field_values, visiting)
      [] OTHER -> Abort("todo")

\* The first loop of decode_class, from field i on, ai being the next member value.
DecodeFields(state, class, i, ai, field_values, visiting) ==
    IF i > class.class_info.member_count THEN Decoded(field_values)
    ELSE Unwind(DecodeField(state, class.member_type_info.member_types[i],
                            class.member_references[ai], field_values, visiting),
                LAMBDA values : DecodeFields(state, class, i + 1, ai + 1, values, visiting))

\* decode_class with a class that is being decoded given back without fields.
decode_class_BreaksCycle(state, class, visiting) ==
    IF class \in visiting
    THEN Decoded([library_name |-> <<>>, name |-> class.class_info.name, fields |-> <<>>])
    ELSE Unwind(DecodeFields(state, class, 1, 1, <<>>, visiting \cup {class}),
                LAMBDA field_values :
             IF Len(field_values) < Len(class.class_info.member_names)
             THEN Abort("field_values[i]")
             ELSE IF class.library_id \notin DOMAIN state.libraries
                  THEN Abort("libraries.get().unwrap()")
             ELSE Decoded([library_name |-> state.libraries[class.library_id],
                           name |-> class.class_info.name,
                           fields |-> CollectFields(class.class_info.member_names,
                                                    field_values, 1, <<>>)]))

\* StreamDecoderState::decode_class.  `visiting` holds the class records whose
\* decode_class is on the call stack: a call for one of them recurses without end.
decode_class(state, class, visiting) ==
    IF class \in visiting THEN Abort("stack overflow")
    ELSE Unwind(DecodeFields(state, class, 1, 1, <<>>, visiting \cup {class}),
                LAMBDA field_values :
             IF Len(field_values) < Len(class.class_info.member_names)
             THEN Abort("field_values[i]")
             ELSE IF class.library_id \notin DOMAIN state.libraries
                  THEN Abort("libraries.get().unwrap()")
             ELSE Decoded([library_name |-> state.libraries[class.library_id],
                           name |-> class.class_info.name,
                           fields |-> CollectFields(class.class_info.member_names,
                                                    field_values, 1, <<>>)]))

\* The body of the loop with every record after the root record left out of the
\* tables.
IndexRecord_UpToRoot(state, record) ==
    IF state.root # <<>> THEN state
    ELSE
    CASE record.k = "SerializationHeader" -> [state EXCEPT !.root_id = <<record.root_id>>]
      [] record.k = "ClassWithId" ->
           [state EXCEPT !.objects = Insert(@, record.object_id, record)]
      [] record.k = "BinaryLibrary" ->
           [state EXCEPT !.libraries = Insert(@, record.library_id, record.library_name)]
      [] record.k = "MessageEnd" -> state
      [] record.k = "ClassWithMembersAndTypes" ->
           IF state.root_id = <<>>
           THEN [state EXCEPT !.panic = "root_id.unwrap()"]
           ELSE [state EXCEPT
                   !.root = IF record.class_info.object_id = state.root_id[1]
                            THEN <<record>> ELSE @,
                   !.objects = Insert(@, record.class_info.object_id, record)]
      [] record.k = "ArraySinglePrimitive" ->
           [state EXCEPT !.objects = Insert(@, record.array_info.object_id, record)]
      [] OTHER -> [state EXCEPT !.panic = "todo"]

\* The body of the `for record in records` of Stream::decode.
IndexRecord(state, record) ==
    CASE record.k = "SerializationHeader" -> [state EXCEPT !.root_id = <<record.root_id>>]
      [] record.k = "ClassWithId" ->
           [state EXCEPT !.objects = Insert(@, record.object_id, record)]
      [] record.k = "BinaryLibrary" ->
           [state EXCEPT !.libraries = Insert(@, record.library_id, record.library_name)]
      [] record.k = "MessageEnd" -> state
      [] record.k = "ClassWithMembersAndTypes" ->
           IF state.root_id = <<>>
           THEN [state EXCEPT !.panic = "root_id.unwrap()"]
           ELSE [state EXCEPT
                   !.root = IF record.class_info.object_id = state.root_id[1]
                            THEN <<record>> ELSE @,
                   !.objects = Insert(@, record.class_info.object_id, record)]
      [] record.k = "ArraySinglePrimitive" ->
           [state EXCEPT !.objects = Insert(@, record.array_info.object_id, record)]
      [] OTHER -> [state EXCEPT !.panic = "todo"]

\* The `for record in records` of Stream::decode, up to a panic.
RECURSIVE Index(_, _)
Index(recs, state) ==
    IF recs = <<>> \/ state.panic # "" THEN state
    ELSE Index(Tail(recs), IndexRecord(state, Head(recs)))

\* The end of Stream::decode, state being the tables after the loop.
DecodeRoot(recs, state) ==
    IF state.panic # "" THEN [panic |-> state.panic, v |-> <<>>]
    ELSE IF state.root = <<>> THEN Abort("root.unwrap()")
    ELSE decode_class(state, state.root[1], {})

\* Stream::decode: [e, x, panic_at, records, root].  e is "ok" with the root Class,
\* a ParseError variant with its number x, or "panic" with the place.
StreamDecode(R) ==
    With(ParseRecords(R, 1), LAMBDA parsed :
        IF parsed.e = "panic"
        THEN [e |-> "panic", x |-> 0, panic_at |-> "parse", records |-> <<>>, root |-> <<>>]
        ELSE IF parsed.e # "ok"
        THEN [e |-> parsed.e, x |-> parsed.x, panic_at |-> "", records |-> <<>>,
              root |-> <<>>]
        ELSE With(DecodeRoot(parsed.v,
                             Index(parsed.v, [objects |-> <<>>, libraries |-> <<>>,
                                              root_id |-> <<>>, root |-> <<>>,
                                              panic |-> ""])),
                  LAMBDA root :
                     [e |-> IF root.panic # "" THEN "panic" ELSE "ok", x |-> 0,
                      panic_at |-> root.panic, records |-> parsed.v, root |-> root.v]))

(***************************************************************************)
(* The inputs: the Class trees handed to Stream::encode and the byte       *)
(* sequences handed to Stream::decode.                                     *)
(***************************************************************************)
MaxSize == 2         \* the fields of a Class tree, nested ones included

MaxArrayLen == 1     \* the elements of a PrimitiveArray

MaxSteps == 3        \* the calls of one behaviour

\* "L", class "A" and "M", class "B"
ClassHeads == {[library_name |-> <<76>>, name |-> <<65>>],
               [library_name |-> <<77>>, name |-> <<66>>]}

\* "x", "y", "z", ...: the name of the field at a position
FieldName(pos) == <<119 + pos>>

Int32Array(n) ==
    [variant |-> "Int32",
     items |-> [i \in 1..n |-> [n |-> IF i % 2 = 1 THEN i ELSE -i, b |-> <<>>]]]

\* TimeSpan(00:00:01) and DateTime(1970-01-01 00:00:00.000001), as ParsePrimitive
\* gives them.
TimeValues ==
    {[variant |-> "TimeSpan", n |-> 1, b |-> <<0>>],
     Bits("DateTime", <<1, 0, 0, 0, 0, 0, 0, 0>>)}

TimeArray(value, n) ==
    [variant |-> value.variant, items |-> [i \in 1..n |-> [n |-> value.n, b |-> value.b]]]

Leaves ==
    {[f |-> "Primitive", primitive |-> Num("Int32", 42)],
     [f |-> "Primitive", primitive |-> Num("Boolean", 1)],
     [f |-> "Primitive", primitive |-> Bits("String", <<104, 105>>)],
     [f |-> "Primitive", primitive |-> Num("Char", 97)],
     [f |-> "Primitive", primitive |-> Num("Char", 233)],
     [f |-> "PrimitiveArray", array |-> [variant |-> "Null", items |-> <<>>]]}
    \cup {[f |-> "PrimitiveArray", array |-> Int32Array(n)] : n \in 0..MaxArrayLen}
    \cup {[f |-> "Primitive", primitive |-> value] : value \in TimeValues}
    \cup {[f |-> "PrimitiveArray", array |-> TimeArray(value, n)] :
             value \in TimeValues, n \in 0..MaxArrayLen}

RECURSIVE ClassesOfSize(_)
RECURSIVE FieldsOfSize(_, _)

\* The field values that weigh k: a leaf weighs 1, a Class one more than its fields.
ValuesOfSize(k) ==
    (IF k = 1 THEN Leaves ELSE {})
    \cup {[f |-> "Class", class |-> c] : c \in ClassesOfSize(k - 1)}

FieldsOfSize(n, pos) ==
    IF n = 0 THEN {<<>>}
    ELSE UNION {{<<[name |-> FieldName(pos), value |-> v]>> \o rest :
                    v \in ValuesOfSize(k), rest \in FieldsOfSize(n - k, pos + 1)} :
                k \in 1..n}

ClassesOfSize(n) ==
    {[library_name |-> h.library_name, name |-> h.name, fields |-> fields] :
        h \in ClassHeads, fields \in FieldsOfSize(n, 1)}

Streams == UNION {ClassesOfSize(n) : n \in 0..MaxSize}

\* Class "A" of library "L" without fields, as the encoder writes it.
EmptyClassBytes ==
    <<0, 1, 0, 0, 0, 255, 255, 255, 255, 1, 0, 0, 0, 0, 0, 0, 0,
      12, 2, 0, 0, 0, 1, 76,
      5, 1, 0, 0, 0, 1, 65, 0, 0, 0, 0, 2, 0, 0, 0,
      11>>

\* The same with a zero byte more after member_count.
EmptyClassBytes41 ==
    <<0, 1, 0, 0, 0, 255, 255, 255, 255, 1, 0, 0, 0, 0, 0, 0, 0,
      12, 2, 0, 0, 0, 1, 76,
      5, 1, 0, 0, 0, 1, 65, 0, 0, 0, 0, 0, 2, 0, 0, 0,
      11>>

\* The same as EmptyClassBytes with the library declared as 3.
LibraryThreeBytes ==
    <<0, 1, 0, 0, 0, 255, 255, 255, 255, 1, 0, 0, 0, 0, 0, 0, 0,
      12, 3, 0, 0, 0, 1, 76,
      5, 1, 0, 0, 0, 1, 65, 0, 0, 0, 0, 3, 0, 0, 0,
      11>>

\* Class "A" with x = Int32 42 and y = the Int32 array [1, -1] (object 3).
FlatClassBytes ==
    <<0, 1, 0, 0, 0, 255, 255, 255, 255, 1, 0, 0, 0, 0, 0, 0, 0,
      12, 2, 0, 0, 0, 1, 76,
      5, 1, 0, 0, 0, 1, 65, 2, 0, 0, 0, 1, 120, 1, 121,
         0, 7, 8, 8, 2, 0, 0, 0, 42, 0, 0, 0, 9, 3, 0, 0, 0,
      15, 3, 0, 0, 0, 2, 0, 0, 0, 8, 1, 0, 0, 0, 255, 255, 255, 255,
      11>>

\* Class "A" with x = Class "A" (object 3), both of library "L" declared as 4: the
\* ids the encoder gives, but for the reference, which names object 3.
NestedClassBytes ==
    <<0, 1, 0, 0, 0, 255, 255, 255, 255, 1, 0, 0, 0, 0, 0, 0, 0,
      12, 4, 0, 0, 0, 1, 76,
      5, 1, 0, 0, 0, 1, 65, 1, 0, 0, 0, 1, 120,
         4, 1, 65, 4, 0, 0, 0, 4, 0, 0, 0, 9, 3, 0, 0, 0,
      5, 3, 0, 0, 0, 1, 65, 0, 0, 0, 0, 4, 0, 0, 0,
      11>>

\* A BinaryArray (object 1, Single, rank 1, length 1, of Primitive Int32) with its member 5.
BinaryArrayBytes ==
    <<0, 1, 0, 0, 0, 255, 255, 255, 255, 1, 0, 0, 0, 0, 0, 0, 0,
      7, 1, 0, 0, 0, 0, 1, 0, 0, 0, 1, 0, 0, 0, 0, 8, 5, 0, 0, 0,
      11>>

\* Class "A" with x = the f32 NaN 7FC00001 and y = the f64 array [1.0, -0.0, NaN]
\* (object 3).
FloatClassBytes ==
    <<0, 1, 0, 0, 0, 255, 255, 255, 255, 1, 0, 0, 0, 0, 0, 0, 0,
      12, 2, 0, 0, 0, 1, 76,
      5, 1, 0, 0, 0, 1, 65, 2, 0, 0, 0, 1, 120, 1, 121,
         0, 7, 11, 6, 2, 0, 0, 0, 1, 0, 192, 127, 9, 3, 0, 0, 0,
      15, 3, 0, 0, 0, 3, 0, 0, 0, 6,
         0, 0, 0, 0, 0, 0, 240, 63,
         0, 0, 0, 0, 0, 0, 0, 128,
         0, 0, 0, 0, 0, 0, 248, 127,
      11>>

\* Class "A" (object 1) with x = a Class "B" by reference to object 4; Class "B"
\* (object 3); ClassWithId{object_id 4, metadata_id 3}.
ClassWithIdBytes ==
    <<0, 1, 0, 0, 0, 255, 255, 255, 255, 1, 0, 0, 0, 0, 0, 0, 0,
      12, 2, 0, 0, 0, 1, 76,
      5, 1, 0, 0, 0, 1, 65, 1, 0, 0, 0, 1, 120,
         4, 1, 66, 2, 0, 0, 0, 2, 0, 0, 0, 9, 4, 0, 0, 0,
      5, 3, 0, 0, 0, 1, 66, 0, 0, 0, 0, 2, 0, 0, 0,
      1, 4, 0, 0, 0, 3, 0, 0, 0,
      11>>

\* Class "A" with one member x of BinaryType String, which has no additional info
\* and for which read_references reads no value.
StringMemberBytes ==
    <<0, 1, 0, 0, 0, 255, 255, 255, 255, 1, 0, 0, 0, 0, 0, 0, 0,
      12, 2, 0, 0, 0, 1, 76,
      5, 1, 0, 0, 0, 1, 65, 1, 0, 0, 0, 1, 120,
         1, 2, 0, 0, 0,
      11>>

\* Class "A" with one member x of BinaryType SystemClass ("S"), its value ObjectNull.
SystemClassMemberBytes ==
    <<0, 1, 0, 0, 0, 255, 255, 255, 255, 1, 0, 0, 0, 0, 0, 0, 0,
      12, 2, 0, 0, 0, 1, 76,
      5, 1, 0, 0, 0, 1, 65, 1, 0, 0, 0, 1, 120,
         3, 1, 83, 2, 0, 0, 0, 10,
      11>>

\* Class "A" of library "L" without a header before it.
NoHeaderBytes ==
    <<12, 2, 0, 0, 0, 1, 76,
      5, 1, 0, 0, 0, 1, 65, 0, 0, 0, 0, 2, 0, 0, 0,
      11>>

\* The byte sequences the others are made from.
Bases ==
    {EmptyClassBytes, EmptyClassBytes41, LibraryThreeBytes, FlatClassBytes,
     NestedClassBytes, BinaryArrayBytes, NoHeaderBytes, FloatClassBytes,
     ClassWithIdBytes, StringMemberBytes, SystemClassMemberBytes}

PokeValues == {1, 2, 3, 4, 5, 6, 11, 13, 16, 18, 19, 20, 23, 99}

Poke(bytes, at, to) == [bytes EXCEPT ![at] = to]

\* The places where the records after the header start in FlatClassBytes (library,
\* class, array, MessageEnd) and in NestedClassBytes (library, class, class,
\* MessageEnd).
FlatClassStarts == <<18, 25, 57, 75>>

NestedClassStarts == <<18, 25, 54, 69>>

\* The bytes of `base` with the three records between the header and MessageEnd in
\* every order.
Reordered(base, starts) ==
    {SubSeq(base, 1, starts[1] - 1)
       \o SubSeq(base, starts[order[1]], starts[order[1] + 1] - 1)
       \o SubSeq(base, starts[order[2]], starts[order[2] + 1] - 1)
       \o SubSeq(base, starts[order[3]], starts[order[3] + 1] - 1)
       \o SubSeq(base, starts[4], Len(base)) :
          order \in {o \in [1..3 -> 1..3] : \A i, j \in 1..3 : o[i] = o[j] => i = j}}

Wires ==
    Bases
    \cup Reordered(FlatClassBytes, FlatClassStarts)
    \cup Reordered(NestedClassBytes, NestedClassStarts)
    \cup UNION {{Poke(b, at, to) : at \in 1..Len(b), to \in PokeValues} : b \in Bases}
    \cup UNION {{SubSeq(b, 1, n) : n \in 0..(Len(b) - 1)} : b \in Bases}

(***************************************************************************)
(* The state machine: a behaviour starts from a Class tree or from bytes   *)
(* and alternates Stream::encode and Stream::decode.                       *)
(***************************************************************************)
Init ==
    /\ overflow_checks \in BOOLEAN
    /\ origin \in {[kind |-> "stream", stream |-> s, wire |-> <<>>] : s \in Streams}
                  \cup {[kind |-> "wire", stream |-> <<>>, wire |-> w] : w \in Wires}
    /\ pc = IF origin.kind = "stream" THEN "model" ELSE "wire"
    /\ stream = origin.stream
    /\ wire = origin.wire
    /\ records = <<>>
    /\ err = "ok"
    /\ errx = 0
    /\ panic_at = ""
    /\ steps = 0
    /\ held = <<>>

\* Stream::encode(stream) into a buffer.
Encode ==
    /\ pc = "model"
    /\ steps < MaxSteps
    /\ \E root \in {stream} : \E result \in {StreamEncode(root)} :
          /\ records' = result.records
          /\ wire' = result.out
          /\ pc' = IF result.panic THEN "stopped" ELSE "wire"
          /\ err' = IF result.panic THEN "panic" ELSE "ok"
          /\ panic_at' = IF result.panic THEN "unparse" ELSE ""
    /\ errx' = 0
    /\ steps' = steps + 1
    /\ UNCHANGED <<stream, origin, held, overflow_checks>>

\* Stream::decode of the bytes held.
Decode ==
    /\ pc = "wire"
    /\ steps < MaxSteps
    /\ \E reader \in {Reader(wire, overflow_checks)} : \E result \in {StreamDecode(reader)} :
          /\ records' = result.records
          /\ err' = result.e
          /\ errx' = result.x
          /\ panic_at' = result.panic_at
          /\ stream' = result.root
          /\ pc' = IF result.e = "ok" THEN "model" ELSE "stopped"
    /\ steps' = steps + 1
    /\ UNCHANGED <<wire, origin, held, overflow_checks>>

Next == Encode \/ Decode

Spec == Init /\ [][Next]_vars

\* The call that led to the state: "" before any.
LastCall ==
    IF steps = 0 THEN ""
    ELSE IF (origin.kind = "stream") = (steps % 2 = 1) THEN "encode" ELSE "decode"

(***************************************************************************)
(* What the properties read off a state.                                   *)
(***************************************************************************)
\* The records that declare an object_id, and the id each declares.
Declares(r) == r.k \in {"ClassWithMembersAndTypes", "ArraySinglePrimitive"}

ObjectIdOf(r) ==
    IF r.k = "ClassWithMembersAndTypes" THEN r.class_info.object_id
    ELSE r.array_info.object_id

DeclaredIds(recs) == {ObjectIdOf(recs[i]) : i \in {j \in 1..Len(recs) : Declares(recs[j])}}

\* The library_name of the BinaryLibrary records, in the order of the records.
LibraryRecords(recs) == SelectSeq(recs, LAMBDA r : r.k = "BinaryLibrary")

LibraryOrder(recs) ==
    [i \in 1..Len(LibraryRecords(recs)) |-> LibraryRecords(recs)[i].library_name]

\* The library names of a Class tree.
RECURSIVE LibraryNames(_)
LibraryNames(class) ==
    {class.library_name}
    \cup UNION {IF class.fields[i].value.f = "Class"
                THEN LibraryNames(class.fields[i].value.class) ELSE {} :
                i \in 1..Len(class.fields)}

\* The library names of a Class tree in the order the walk of encode_class first
\* meets them: the class, then its fields in order, each Class field walked whole.
AppendNew(seq, x) == IF \E i \in 1..Len(seq) : seq[i] = x THEN seq ELSE Append(seq, x)

RECURSIVE FirstSeen(_, _)
RECURSIVE FirstSeenFields(_, _)
FirstSeen(seen, class) ==
    FirstSeenFields(AppendNew(seen, class.library_name), class.fields)

FirstSeenFields(seen, fields) ==
    IF fields = <<>> THEN seen
    ELSE FirstSeenFields(IF Head(fields).value.f = "Class"
                         THEN FirstSeen(seen, Head(fields).value.class) ELSE seen,
                         Tail(fields))

\* A Class tree has a Class-typed field somewhere.
HasClassField(class) == \E i \in 1..Len(class.fields) : class.fields[i].value.f = "Class"

\* The record kinds the Stream layer writes, at the top level and as member values.
StreamKinds ==
    {"SerializationHeader", "BinaryLibrary", "ClassWithMembersAndTypes",
     "ArraySinglePrimitive", "MemberReference", "MemberPrimitiveUnTyped", "MessageEnd"}

UsesStreamKinds(recs) ==
    \A i \in 1..Len(recs) :
        /\ recs[i].k \in StreamKinds
        /\ recs[i].k = "ClassWithMembersAndTypes" =>
              \A j \in 1..Len(recs[i].member_references) :
                  recs[i].member_references[j].k \in StreamKinds

\* The records Stream::decode read from the bytes the behaviour started with.
OriginRecords == ParseRecords(Reader(origin.wire, overflow_checks), 1).v

\* Class{library_name: "L", name: "A", fields: {}}
ClassLA == [library_name |-> <<76>>, name |-> <<65>>, fields |-> <<>>]

\* The header Stream::encode is to write.
HeaderOne ==
    [k |-> "SerializationHeader", root_id |-> 1, header_id |-> -1,
     major_version |-> 1, minor_version |-> 0]

(***************************************************************************)
(* The properties.                                                         *)
(***************************************************************************)

\* C1: for every Class tree S built in memory, Stream::encode writes it without
\* aborting and Stream::decode of the bytes written returns a Class equal to S
\* (library_name, name, field order and field values, recursively).
C1_ModelRoundTrip ==
    (origin.kind = "stream" /\ steps \in {1, 2}) =>
        /\ err = "ok"
        /\ steps = 2 => stream = origin.stream

\* C2: for every byte sequence B that Stream::decode accepts and whose records are
\* only of the seven kinds of the Stream layer, Stream::encode of the decoded
\* Class writes B again, byte for byte.
C2_WireRoundTrip ==
    (origin.kind = "wire" /\ steps = 2 /\ UsesStreamKinds(OriginRecords)) =>
        wire = origin.wire

\* C3: decoding the 41 bytes of scenario E1 gives Class{L, A, no fields} and
\* encoding that Class writes the 41 bytes again.
C3_ScenarioE1 ==
    (origin.kind = "wire" /\ origin.wire = EmptyClassBytes41 /\ steps \in {1, 2}) =>
        /\ err = "ok"
        /\ steps = 1 => stream = ClassLA
        /\ steps = 2 => wire = origin.wire

\* C3, amended: decoding the 40 bytes 00 01 00 00 00 FF FF FF FF 01 00 00 00 00 00
\* 00 00 0C 02 00 00 00 01 4C 05 01 00 00 00 01 41 00 00 00 00 02 00 00 00 0B (the
\* name "A" followed by the four zero bytes of member_count) gives
\* Class{L, A, no fields} and encoding that Class writes the 40 bytes again.
C3_ScenarioE1_40 ==
    (origin.kind = "wire" /\ origin.wire = EmptyClassBytes /\ steps \in {1, 2}) =>
        /\ err = "ok"
        /\ stream = ClassLA
        /\ steps = 2 => wire = origin.wire

\* The 40 bytes were decoded and the Class encoded again.
C3_Witness ==
    origin.kind = "wire" /\ origin.wire = EmptyClassBytes /\ steps = 2 /\ pc = "wire"

\* C4: the record list of Stream::encode starts with SerializationHeader{1, -1, 1, 0},
\* ends with MessageEnd, has neither kind anywhere else, and its first
\* ClassWithMembersAndTypes record, the one of the root Class, has object_id 1.
C4_HeaderContract ==
    LastCall = "encode" =>
        /\ Len(records) >= 3
        /\ records[1] = HeaderOne
        /\ records[Len(records)].k = "MessageEnd"
        /\ \A i \in 2..(Len(records) - 1) :
              records[i].k \notin {"SerializationHeader", "MessageEnd"}
        /\ \E i \in 2..(Len(records) - 1) :
              /\ records[i].k = "ClassWithMembersAndTypes"
              /\ records[i].class_info.object_id = 1
              /\ records[i].class_info.name = stream.name
              /\ \A j \in 2..(i - 1) : records[j].k = "BinaryLibrary"

\* A tree with a nested Class and two libraries was encoded.
C4_Witness ==
    /\ LastCall = "encode"
    /\ HasClassField(stream)
    /\ Len(LibraryRecords(records)) = 2

\* C5: no two records of the list of Stream::encode declare the same object_id
\* (class_info.object_id of a ClassWithMembersAndTypes record, array_info.object_id
\* of an ArraySinglePrimitive record).
C5_IdUniqueness ==
    LastCall = "encode" =>
        \A i, j \in 1..Len(records) :
            (i # j /\ Declares(records[i]) /\ Declares(records[j])) =>
                ObjectIdOf(records[i]) # ObjectIdOf(records[j])

\* A tree whose records declare three object ids, two of them of arrays, was encoded.
C5_Witness ==
    /\ LastCall = "encode"
    /\ Cardinality(DeclaredIds(records)) = 3
    /\ Cardinality({i \in 1..Len(records) : records[i].k = "ArraySinglePrimitive"}) = 2

\* C6: every MemberReference in the record list of Stream::encode has the object_id
\* that a record of the list declares, and that record is of the kind of the field:
\* a ClassWithMembersAndTypes record for a Class field, an ArraySinglePrimitive
\* record for a PrimitiveArray field.
C6_ReferenceIntegrity ==
    LastCall = "encode" =>
        \A i \in 1..Len(records) :
            records[i].k = "ClassWithMembersAndTypes" =>
                \A j \in 1..Len(records[i].member_references) :
                    records[i].member_references[j].k = "MemberReference" =>
                        \E d \in 1..Len(records) :
                            /\ Declares(records[d])
                            /\ ObjectIdOf(records[d]) = records[i].member_references[j].id
                            /\ (records[d].k = "ClassWithMembersAndTypes")
                                 = (records[i].member_type_info.member_types[j]
                                      = BinaryType.Class)

\* C7: the record list of Stream::encode has exactly one BinaryLibrary record for
\* each library_name of the tree: none twice, none missing, none besides.
C7_LibraryDeduplication ==
    LastCall = "encode" =>
        /\ {LibraryOrder(records)[i] : i \in 1..Len(LibraryOrder(records))}
             = LibraryNames(stream)
        /\ Len(LibraryOrder(records)) = Cardinality(LibraryNames(stream))

\* A tree with two Class fields in the library of the root was encoded.
C7_Witness ==
    /\ LastCall = "encode"
    /\ Len(stream.fields) = 2
    /\ \A i \in 1..2 : /\ stream.fields[i].value.f = "Class"
                       /\ stream.fields[i].value.class.library_name = stream.library_name

\* C8: the BinaryLibrary records of Stream::encode are in the order in which the
\* class walk from the root first meets their library_name.
C8_FirstSeenOrder ==
    LastCall = "encode" => LibraryOrder(records) = FirstSeen(<<>>, stream)

\* C8, amended: the BinaryLibrary records of Stream::encode are in ascending order
\* of library_name (the order of the strings' bytes), whatever the order in which
\* the class walk meets the names.
C8_NameOrder ==
    LastCall = "encode" =>
        \A i, j \in 1..Len(LibraryOrder(records)) :
            i < j => StrLess(LibraryOrder(records)[i], LibraryOrder(records)[j])

\* A tree whose walk meets the later name first was encoded.
C8_Witness ==
    /\ LastCall = "encode"
    /\ Len(LibraryOrder(records)) = 2
    /\ FirstSeen(<<>>, stream) # LibraryOrder(records)

\* C9: Stream::decode returns a Stream or a ParseError for every byte sequence: it
\* never aborts.
C9_DecodeTotal == LastCall = "decode" => err # "panic"

\* The places of FlatClassBytes and of BinaryArrayBytes that Stream::decode reads as
\* a RecordType (the tags of the header, the library, the class, the reference, the
\* array and MessageEnd), as a BinaryType (the two member types), as a
\* PrimitiveType (the two additional infos and the type of the array) and as a
\* BinaryArrayType.
RecordTypePlaces == {1, 18, 25, 52, 57, 75}

BinaryTypePlaces == {40, 41}

PrimitiveTypePlaces == {42, 43, 66}

BinaryArrayTypePlaces == {23}

\* The bytes of the behaviour are `base` but for place p, which holds a byte that
\* is no discriminant of the enum.
InvalidAt(base, p, enum) ==
    /\ origin.kind = "wire"
    /\ Len(origin.wire) = Len(base)
    /\ origin.wire = Poke(base, p, origin.wire[p])
    /\ origin.wire[p] \notin Discriminants(enum)

\* The decode failed with the error, carrying the byte at place p.
FailedWith(error, p) == err = error /\ errx = origin.wire[p]

\* C10: a byte read as a RecordType, PrimitiveType, BinaryType or BinaryArrayType
\* that is no discriminant of the enum makes Stream::decode fail with
\* InvalidRecordType, InvalidPrimitiveType, InvalidBinaryType or
\* InvalidBinaryArrayType, carrying the byte: so for 18, 19, 20, 23 and 99 read as
\* a RecordType.
C10_InvalidDiscriminants ==
    steps = 1 =>
        /\ \A p \in RecordTypePlaces :
              InvalidAt(FlatClassBytes, p, RecordType) => FailedWith("InvalidRecordType", p)
        /\ \A p \in BinaryTypePlaces :
              InvalidAt(FlatClassBytes, p, BinaryType) => FailedWith("InvalidBinaryType", p)
        /\ \A p \in PrimitiveTypePlaces :
              InvalidAt(FlatClassBytes, p, PrimitiveType)
                  => FailedWith("InvalidPrimitiveType", p)
        /\ \A p \in BinaryArrayTypePlaces :
              InvalidAt(BinaryArrayBytes, p, BinaryArrayType)
                  => FailedWith("InvalidBinaryArrayType", p)

\* The bytes with 99 for the tag of the array record were decoded.
C10_Witness ==
    /\ steps = 1
    /\ InvalidAt(FlatClassBytes, 57, RecordType)
    /\ origin.wire[57] = 99
    /\ err = "InvalidRecordType"

\* The record types of the enum that ParseFromTyped for Record has no arm for.
UnsupportedRecordTypes ==
    {RecordType.SystemClassWithMembers, RecordType.ClassWithMembers,
     RecordType.ArraySingleObject}

\* The place of FlatClassBytes read as the tag of a member value, and the places
\* read as the tag of a top-level record.
MemberTagPlaces == {52}

TopLevelTagPlaces == RecordTypePlaces \ MemberTagPlaces

\* The bytes of the behaviour are `base` but for place p, which holds byte b.
ChangedAt(base, p) ==
    /\ origin.kind = "wire"
    /\ Len(origin.wire) = Len(base)
    /\ origin.wire = Poke(base, p, origin.wire[p])
    /\ origin.wire[p] # base[p]

\* The tags that ParseFromTyped for Record parses a record for.
SupportedRecordTypes == Discriminants(RecordType) \ UnsupportedRecordTypes

\* C11: a RecordType tag that is unknown (outside the enum) or unsupported (in the
\* enum, with no record parsed for it) makes Stream::decode fail with NotEnoughInfo
\* carrying the tag, as the tag of a member value and as the tag of a top-level
\* record.
C11_UnknownOrUnsupported ==
    steps = 1 =>
        \A p \in RecordTypePlaces :
            (ChangedAt(FlatClassBytes, p) /\ origin.wire[p] \notin SupportedRecordTypes)
                => FailedWith("NotEnoughInfo", p)

\* C11, amended: a RecordType tag that is in the enum but unsupported
\* (SystemClassWithMembers 2, ClassWithMembers 3, ArraySingleObject 16) makes
\* Stream::decode fail with NotEnoughInfo carrying the tag, as the tag of a member
\* value and as the tag of a top-level record; a tag outside the enum fails with
\* InvalidRecordType instead.
C11_Unsupported ==
    steps = 1 =>
        \A p \in RecordTypePlaces :
            ChangedAt(FlatClassBytes, p) =>
                /\ origin.wire[p] \in UnsupportedRecordTypes
                      => FailedWith("NotEnoughInfo", p)
                /\ origin.wire[p] \notin Discriminants(RecordType)
                      => FailedWith("InvalidRecordType", p)

\* The bytes with ArraySingleObject for the tag of the member value were decoded.
C11_Witness ==
    /\ steps = 1
    /\ ChangedAt(FlatClassBytes, 52)
    /\ origin.wire[52] = RecordType.ArraySingleObject
    /\ err = "NotEnoughInfo"

(***************************************************************************)
(* The primitive codec on its own: a behaviour starts from a value, writes *)
(* it and reads the bytes written, or starts from bytes and reads them.    *)
(***************************************************************************)
MaxStringLen == 260   \* the bytes of a string

\* A string of n bytes: small letters, after the two bytes of U+00E9 or the three
\* of U+20AC when it starts with one.
StringOf(first, n) ==
    [i \in 1..n |-> IF i <= Len(first) THEN first[i] ELSE 97 + (i % 26)]

Strings ==
    UNION {{StringOf(first, n) :
               first \in {f \in {<<>>, EncodeUtf8(233), EncodeUtf8(8364)} : Len(f) <= n}} :
           n \in 0..MaxStringLen}

\* Every combination of the fifteen flags.
FlagCombinations == [DOMAIN MessageFlagEnum -> BOOLEAN]

\* The four bytes of a u32 on the wire: bits in and out of the flags.
FlagWires ==
    {<<b0, b1, b2, b3>> : b0 \in {0, 1, 130, 255}, b1 \in {0, 32, 64, 128, 191, 255},
                          b2 \in {0, 1, 255}, b3 \in {0, 128, 255}}

\* What a behaviour of the codec starts from: a value to write (the bytes being
\* <<>>) or bytes to read (the value being <<>>).
\* Scalar values at the ends of the ranges of one, two, three and four bytes of
\* UTF-8 and of the surrogates.
Chars == {0, 65, 127, 128, 233, 2047, 2048, 8364, 55295, 57344, 65535, 65536, 128512,
          1114111}

\* Leading and other bytes of each kind.
CharBytes == {0, 65, 127, 128, 169, 191, 195, 224, 226, 237, 240, 255}

\* One to four bytes to read a char from.
CharWires == UNION {[1..n -> CharBytes] : n \in 1..4}

\* Tick counts below 2^31: none, one tick, a second less and more a tick, a minute,
\* the greatest.
SmallTicks == {0, 1, 9999999, 10000000, 10000001, 599999999, 600000000, 2147483647}

\* The eight bytes of the i64 n, or of -n, on the wire, for 0 <= n < 2^31.
TickBytes(n, negative) ==
    With(<<0, 0, 0, 0, n \div 16777216, (n \div 65536) % 256, (n \div 256) % 256, n % 256>>,
         LAMBDA b : Reverse(IF negative THEN NegateBits(b, 1) ELSE b))

\* One hour, a tick less than 24 hours, 24 hours, and i64::MIN.
OneHourBytes == <<0, 104, 196, 97, 8, 0, 0, 0>>

AlmostOneDayBytes == <<255, 191, 105, 42, 201, 0, 0, 0>>

OneDayBytes == <<0, 192, 105, 42, 201, 0, 0, 0>>

MinTicksBytes == <<0, 0, 0, 0, 0, 0, 0, 128>>

TickWires ==
    {TickBytes(n, negative) : n \in SmallTicks, negative \in BOOLEAN}
    \cup {OneHourBytes, AlmostOneDayBytes, OneDayBytes, MinTicksBytes}

CodecOrigin ==
    \/ \E s \in Strings : origin = [kind |-> "string", held |-> s, wire |-> <<>>]
    \/ \E w \in TickWires : origin = [kind |-> "timespan", held |-> <<>>, wire |-> w]
    \/ \E c \in Chars : origin = [kind |-> "char", held |-> c, wire |-> <<>>]
    \/ \E w \in CharWires : origin = [kind |-> "char", held |-> <<>>, wire |-> w]
    \/ \E flags \in FlagCombinations :
          origin = [kind |-> "flags", held |-> flags, wire |-> <<>>]
    \/ \E w \in FlagWires : origin = [kind |-> "flags", held |-> <<>>, wire |-> w]

CodecInit ==
    /\ overflow_checks \in BOOLEAN
    /\ CodecOrigin
    /\ pc = IF origin.wire = <<>> THEN "value" ELSE "bytes"
    /\ held = origin.held
    /\ stream = <<>>
    /\ wire = origin.wire
    /\ records = <<>>
    /\ err = "ok"
    /\ errx = 0
    /\ panic_at = ""
    /\ steps = 0

\* writer.unparse(s) of the string held.
UnparseString ==
    /\ pc = "value"
    /\ origin.kind = "string"
    /\ \E s \in {held} : \E written \in {UnparseStr(s)} :
          /\ wire' = written.out
          /\ pc' = IF written.panic THEN "stopped" ELSE "bytes"
          /\ err' = IF written.panic THEN "panic" ELSE "ok"
    /\ held' = <<>>
    /\ errx' = 0
    /\ steps' = steps + 1
    /\ UNCHANGED <<stream, records, panic_at, origin, overflow_checks>>

\* reader.parse::<String>() of the bytes held.
ReadString ==
    /\ pc = "bytes"
    /\ origin.kind = "string"
    /\ \E reader \in {Reader(wire, overflow_checks)} : \E read \in {ParseString(reader, 1)} :
          /\ held' = read.v
          /\ err' = read.e
          /\ errx' = read.x
          /\ pc' = IF read.e = "ok" THEN "read" ELSE "stopped"
    /\ steps' = steps + 1
    /\ UNCHANGED <<stream, wire, records, panic_at, origin, overflow_checks>>

\* writer.unparse(message_flags) of the flags held.
UnparseFlags ==
    /\ pc = "value"
    /\ origin.kind = "flags"
    /\ \E flags \in {held} : \E written \in {UnparseMessageFlags(flags)} :
          /\ wire' = written.out
          /\ pc' = IF written.panic THEN "stopped" ELSE "bytes"
          /\ err' = IF written.panic THEN "panic" ELSE "ok"
    /\ held' = <<>>
    /\ errx' = 0
    /\ steps' = steps + 1
    /\ UNCHANGED <<stream, records, panic_at, origin, overflow_checks>>

\* reader.parse::<MessageFlags>() of the bytes held.
ReadFlags ==
    /\ pc = "bytes"
    /\ origin.kind = "flags"
    /\ \E reader \in {Reader(wire, overflow_checks)} :
       \E read \in {ParseMessageFlags(reader, 1)} :
          /\ held' = read.v
          /\ err' = read.e
          /\ errx' = read.x
          /\ pc' = IF read.e = "ok" THEN "read" ELSE "stopped"
    /\ steps' = steps + 1
    /\ UNCHANGED <<stream, wire, records, panic_at, origin, overflow_checks>>

\* writer.unparse(c) of the char held.
WriteChar ==
    /\ pc = "value"
    /\ origin.kind = "char"
    /\ \E c \in {held} : \E written \in {UnparseChar(c)} :
          /\ wire' = written.out
          /\ pc' = IF written.panic THEN "stopped" ELSE "bytes"
          /\ err' = IF written.panic THEN "panic" ELSE "ok"
    /\ held' = <<>>
    /\ errx' = 0
    /\ steps' = steps + 1
    /\ UNCHANGED <<stream, records, panic_at, origin, overflow_checks>>

\* reader.parse::<char>() of the bytes held.
ReadChar ==
    /\ pc = "bytes"
    /\ origin.kind = "char"
    /\ \E reader \in {Reader(wire, overflow_checks)} : \E read \in {ParseChar(reader, 1)} :
          /\ held' = read.v
          /\ err' = read.e
          /\ errx' = read.x
          /\ pc' = IF read.e = "ok" THEN "read" ELSE "stopped"
    /\ steps' = steps + 1
    /\ UNCHANGED <<stream, wire, records, panic_at, origin, overflow_checks>>

\* reader.parse::<NaiveTime>() of the bytes held.
ReadTimeSpan ==
    /\ pc = "bytes"
    /\ origin.kind = "timespan"
    /\ \E reader \in {Reader(wire, overflow_checks)} :
       \E read \in {ParseNaiveTime(reader, 1)} :
          /\ held' = read.v
          /\ err' = read.e
          /\ errx' = read.x
          /\ pc' = IF read.e = "ok" THEN "read" ELSE "stopped"
    /\ steps' = steps + 1
    /\ UNCHANGED <<stream, wire, records, panic_at, origin, overflow_checks>>

CodecNext ==
    \/ UnparseString \/ ReadString
    \/ UnparseFlags \/ ReadFlags
    \/ WriteChar \/ ReadChar
    \/ ReadTimeSpan

CodecSpec == CodecInit /\ [][CodecNext]_vars

\* C12: a valid UTF-8 string s of fewer than 2^28 bytes, written and read back, is
\* read without error and is s again, length and bytes: so for the lengths 0, 127,
\* 128 and 256 and more.
C12_StringRoundTrip ==
    (origin.kind = "string" /\ steps = 2) => (err = "ok" /\ held = origin.held)

\* The places of FloatClassBytes that hold the bytes of the f32 and of the f64s.
FloatPlaces == (48..51) \cup (67..90)

\* C13: every bit pattern read as an f32 or an f64 is written back as the same
\* little-endian bytes, NaN payloads and -0.0 included, for a Primitive field and
\* for the elements of a PrimitiveArray: the stream of a class with an f32 field
\* and the f64 array [1.0, -0.0, NaN], and every stream that differs from it in one
\* byte of a float, is decoded and encoded back to the same bytes.
C13_FloatBits ==
    (origin.kind = "wire" /\ steps \in {1, 2} /\ Len(origin.wire) = Len(FloatClassBytes)
        /\ \E p \in FloatPlaces : origin.wire = Poke(FloatClassBytes, p, origin.wire[p]))
    => /\ err = "ok"
       /\ steps = 2 => wire = origin.wire

\* The stream with a payload put into the NaN of the array went through decode
\* and encode.
C13_Witness ==
    /\ steps = 2
    /\ ChangedAt(FloatClassBytes, 83)
    /\ origin.wire[83] = 1
    /\ stream.fields[2].value.array.variant = "Double"
    /\ err = "ok"

\* C14: the stream of scenario E5 (a class with a Class-typed member that refers to
\* a ClassWithId record whose metadata_id names a class record defined before it)
\* is decoded to a Stream whose root has a Class field for that member.
C14_ClassWithIdResolved ==
    (origin.kind = "wire" /\ origin.wire = ClassWithIdBytes /\ steps = 1) =>
        /\ err = "ok"
        /\ Len(stream.fields) = 1
        /\ stream.fields[1].name = <<120>>
        /\ stream.fields[1].value.f = "Class"

\* The bytes of the behaviour are those of a class with one member of BinaryType t;
\* place 38 of StringMemberBytes holds the BinaryType of the member.
MemberOfType(t) ==
    /\ origin.kind = "wire"
    /\ origin.wire = IF t = BinaryType.SystemClass THEN SystemClassMemberBytes
                     ELSE Poke(StringMemberBytes, 38, t)

\* C15: when the class walk of Stream::decode meets a member of BinaryType String,
\* Object, ObjectArray, StringArray or SystemClass, the call returns an error that
\* carries the type: it returns no Stream and does not abort.
C15_OtherTypesAreErrors ==
    steps = 1 =>
        \A t \in {BinaryType.String, BinaryType.Object, BinaryType.ObjectArray,
                  BinaryType.StringArray, BinaryType.SystemClass} :
            MemberOfType(t) => (err \notin {"ok", "panic"} /\ errx = t)

\* The Class tree holds a TimeSpan or DateTime value: a Primitive field, or an element
\* of a PrimitiveArray that is not empty.
RECURSIVE HasTimeValue(_)
HasTimeValue(class) ==
    \E i \in 1..Len(class.fields) :
        LET value == class.fields[i].value
        IN  CASE value.f = "Primitive" -> value.primitive.variant \in {"TimeSpan", "DateTime"}
              [] value.f = "PrimitiveArray" ->
                    /\ value.array.variant \in {"TimeSpan", "DateTime"}
                    /\ value.array.items # <<>>
              [] OTHER -> HasTimeValue(value.class)

\* C16: Stream::encode of a Stream that holds a TimeSpan or DateTime value, as a
\* Primitive field or as an element of a PrimitiveArray that is not empty, panics
\* while it writes the records: it returns neither () nor an error.
C16_TimeValuesPanic ==
    (LastCall = "encode" /\ HasTimeValue(stream)) =>
        (err = "panic" /\ panic_at = "unparse" /\ pc = "stopped")

\* Encode has panicked on a Stream whose only time values are the elements of a
\* DateTime array of a nested Class.
C16_Witness ==
    /\ LastCall = "encode"
    /\ origin.kind = "stream"
    /\ Len(stream.fields) = 1
    /\ stream.fields[1].value.f = "Class"
    /\ \E i \in 1..Len(stream.fields[1].value.class.fields) :
          LET value == stream.fields[1].value.class.fields[i].value
          IN  /\ value.f = "PrimitiveArray"
              /\ value.array.variant = "DateTime"
              /\ value.array.items # <<>>
    /\ \A i \in 1..Len(stream.fields[1].value.class.fields) :
          stream.fields[1].value.class.fields[i].value.f # "Primitive"
    /\ err = "panic"

\* The number of top-level records encode_class makes for a sequence of fields and
\* for a Class: one for an array, none for a Primitive, its own and those of its
\* fields for a Class.
RECURSIVE FieldRecordCount(_)
FieldRecordCount(fields) ==
    IF fields = <<>> THEN 0
    ELSE (CASE Head(fields).value.f = "Primitive" -> 0
            [] Head(fields).value.f = "PrimitiveArray" -> 1
            [] OTHER -> 1 + FieldRecordCount(Head(fields).value.class.fields))
         + FieldRecordCount(Tail(fields))

RecordCount(class) == 1 + FieldRecordCount(class.fields)

\* Where the records of field j are, counted from the record of the class, when the
\* records of the fields follow it in the order of the fields.
FieldOffset(class, j) == 1 + FieldRecordCount(SubSeq(class.fields, 1, j - 1))

\* The classes of a tree, each with the place its record then has, the record of
\* `class` being the one at `at`.
RECURSIVE Placed(_, _)
Placed(class, at) ==
    {<<class, at>>}
    \cup UNION {Placed(class.fields[j].value.class, at + FieldOffset(class, j)) :
                  j \in {i \in 1..Len(class.fields) : class.fields[i].value.f = "Class"}}

\* The place of the record of the root: the records of the tree end before MessageEnd.
RootAt == Len(records) - RecordCount(stream)

\* Record rec holds n as an id: the object_id it declares, a library_id, or the id of
\* a MemberReference other than the one at place `but`.
UsesId(rec, n, but) ==
    \/ Declares(rec) /\ ObjectIdOf(rec) = n
    \/ rec.k = "BinaryLibrary" /\ rec.library_id = n
    \/ /\ rec.k = "ClassWithMembersAndTypes"
       /\ \/ rec.library_id = n
          \/ \E j \in 1..Len(rec.member_references) :
                /\ j # but
                /\ rec.member_references[j].k = "MemberReference"
                /\ rec.member_references[j].id = n
          \/ \E j \in 1..Len(rec.member_type_info.additional_info) :
                /\ rec.member_type_info.additional_info[j].a = "Class"
                /\ rec.member_type_info.additional_info[j].info.library_id = n

\* Field j of the class whose record is at `at` is an array, and the reference and
\* the record made for it are as C17 has them.
ArrayFieldEncoded(class, at, j) ==
    LET array  == class.fields[j].value.array
        owner  == records[at]
        ref    == owner.member_references[j]
        made   == at + FieldOffset(class, j)
    IN  /\ owner.k = "ClassWithMembersAndTypes"
        /\ Len(owner.member_references) = Len(class.fields)
        /\ ref.k = "MemberReference"
        /\ records[made].k = "ArraySinglePrimitive"
        /\ records[made].array_info.object_id = ref.id
        /\ records[made].array_info.length = Len(array.items)
        /\ Len(records[made].members) = Len(array.items)
        /\ records[made].primitive_type = PrimitiveType[array.variant]
        /\ ~UsesId(owner, ref.id, j)
        /\ \A i \in 1..Len(records) : i \notin {at, made} => ~UsesId(records[i], ref.id, 0)

\* C17: for every PrimitiveArray field, the record list of Stream::encode has
\* MemberReference{n} at the place of the field in the member_references of the
\* record of its class, one ArraySinglePrimitive record with object_id n, the number
\* of elements as length and the element type of the field, and n in no other record.
C17_ArrayFields ==
    LastCall = "encode" =>
        \A placed \in Placed(stream, RootAt) :
            \A j \in 1..Len(placed[1].fields) :
                placed[1].fields[j].value.f = "PrimitiveArray" =>
                    ArrayFieldEncoded(placed[1], placed[2], j)

\* Encode made the records of a nested Class whose field is an array of one element.
C17_Witness ==
    /\ LastCall = "encode"
    /\ \E placed \in Placed(stream, RootAt) :
          /\ placed[1] # stream
          /\ Len(placed[1].fields) = 1
          /\ placed[1].fields[1].value.f = "PrimitiveArray"
          /\ Len(placed[1].fields[1].value.array.items) = 1
          /\ records[placed[2] + 1].k = "ArraySinglePrimitive"
          /\ records[placed[2] + 1].array_info.length = 1
          /\ records[placed[2] + 1].array_info.object_id
                = records[placed[2]].member_references[1].id

\* Record rec is the ClassWithMembersAndTypes record of `class`: its name, and the
\* names and the kinds of its fields.
IsRecordOf(rec, class) ==
    /\ rec.k = "ClassWithMembersAndTypes"
    /\ rec.class_info.name = class.name
    /\ rec.class_info.member_names = [j \in 1..Len(class.fields) |-> class.fields[j].name]
    /\ rec.member_type_info.member_types =
          [j \in 1..Len(class.fields) |->
              CASE class.fields[j].value.f = "Primitive" -> BinaryType.Primitive_
                [] class.fields[j].value.f = "PrimitiveArray" -> BinaryType.PrimitiveArray
                [] OTHER -> BinaryType.Class]

\* The record at `at` is that of `class`, and the records of its fields come after
\* it in the order of the fields: one ArraySinglePrimitive record for an array, the
\* record of the Class for a Class (the records of the fields of that Class are
\* placed by Placed).
ClassThenFields(class, at) ==
    /\ at >= 1
    /\ at + FieldRecordCount(class.fields) < Len(records)
    /\ IsRecordOf(records[at], class)
    /\ \A j \in 1..Len(class.fields) :
          LET value == class.fields[j].value
              first == at + FieldOffset(class, j)
          IN  CASE value.f = "Primitive" -> TRUE
                [] value.f = "PrimitiveArray" ->
                      /\ records[first].k = "ArraySinglePrimitive"
                      /\ records[first].primitive_type = PrimitiveType[value.array.variant]
                      /\ records[first].array_info.object_id
                            = records[at].member_references[j].id
                [] OTHER -> IsRecordOf(records[first], value.class)

\* C18: in the record list of Stream::encode the ClassWithMembersAndTypes record of
\* every class comes before every record made for its fields (the ArraySinglePrimitive
\* records of its arrays and all the records of its nested classes), and the records
\* of its fields follow it in the order the fields are declared in.
C18_DefinitionFirst ==
    LastCall = "encode" =>
        /\ \A i \in 1..Len(records) :
              (records[i].k \in {"ClassWithMembersAndTypes", "ArraySinglePrimitive"})
                 = (RootAt <= i /\ i < Len(records))
        /\ \A placed \in Placed(stream, RootAt) : ClassThenFields(placed[1], placed[2])

\* Encode made the records of a root whose fields are a Class and then an array: the
\* record of the root, that of the Class, that of the array.
C18_Witness ==
    /\ LastCall = "encode"
    /\ Len(stream.fields) = 2
    /\ stream.fields[1].value.f = "Class"
    /\ stream.fields[2].value.f = "PrimitiveArray"
    /\ stream.fields[1].value.class.name # stream.name
    /\ IsRecordOf(records[RootAt], stream)
    /\ IsRecordOf(records[RootAt + 1], stream.fields[1].value.class)
    /\ records[RootAt + 2].k = "ArraySinglePrimitive"

\* The places of the records of the classes of the tree that have library_name `name`,
\* and among `places` the one visited first and the one visited last: encode_class
\* visits a class before its fields, and the fields in their order.
PlacesOf(name) ==
    {placed[2] : placed \in {q \in Placed(stream, RootAt) : q[1].library_name = name}}

FirstOf(places) == CHOOSE at \in places : \A other \in places : at <= other

LastOf(places) == CHOOSE at \in places : \A other \in places : at >= other

\* The library id encode_class reserves when it visits the class whose record is at
\* `at`: the counter after the object_id was taken from it.
ReservedAt(at) == records[at].class_info.object_id + 1

\* C19: the library_id of the BinaryLibrary record of a library_name is the one that
\* was reserved at the first class visited with that name; later visits of classes
\* with the name do not change it.
C19_FirstOccurrenceWins ==
    LastCall = "encode" =>
        \A i \in 1..Len(records) :
            records[i].k = "BinaryLibrary" =>
                records[i].library_id = ReservedAt(FirstOf(PlacesOf(records[i].library_name)))

\* No class below the one of the tree `class` has the library_name `name`.
RECURSIVE NoneBelow(_, _)
NoneBelow(class, name) ==
    \A j \in 1..Len(class.fields) :
        class.fields[j].value.f = "Class" =>
            /\ class.fields[j].value.class.library_name # name
            /\ NoneBelow(class.fields[j].value.class, name)

\* The classes, with the places of their records, for which the library table still
\* holds what their own visit stored when their record is made: no class below them
\* has their library_name.
KeepsOwnLibraryId ==
    {placed \in Placed(stream, RootAt) : NoneBelow(placed[1], placed[1].library_name)}

\* C20: the library id reserved when encode_class visits a class is the object_id of
\* the class: the value the library table holds for its library_name is the object_id
\* assigned to it.
C20_LibraryIdAliases ==
    LastCall = "encode" =>
        \A placed \in KeepsOwnLibraryId :
            records[placed[2]].library_id = records[placed[2]].class_info.object_id

\* C20 as the code has it: the library id reserved when encode_class visits a class
\* is one more than the object_id of the class.
C20_LibraryIdFollows ==
    LastCall = "encode" =>
        \A placed \in KeepsOwnLibraryId :
            records[placed[2]].library_id = records[placed[2]].class_info.object_id + 1

\* Encode made the records of a root of library "L" with a nested class of library
\* "M": both keep the library id of their own visit, 2 and 4, next to object ids 1 and 3.
C20_Witness ==
    /\ LastCall = "encode"
    /\ Cardinality(KeepsOwnLibraryId) = 2
    /\ \E placed \in KeepsOwnLibraryId :
          /\ placed[1] # stream
          /\ placed[1].library_name # stream.library_name
          /\ records[placed[2]].class_info.object_id = 3
          /\ records[placed[2]].library_id = 4
    /\ records[RootAt].class_info.object_id = 1
    /\ records[RootAt].library_id = 2

\* The bits 0 to 15 of the u32 of four bytes on the wire, and whether the u32 has
\* the bit `bit`, one of those.
LowHalf(w) == w[1] + 256 * w[2]

HasBit(w, bit) == (LowHalf(w) \div bit) % 2 = 1

\* The bits of the flags of a combination that are true.
RECURSIVE SumOfBits(_, _)
SumOfBits(flags, names) ==
    IF names = {} THEN 0
    ELSE LET f == CHOOSE g \in names : TRUE
         IN  (IF flags[f] THEN MessageFlagEnum[f] ELSE 0) + SumOfBits(flags, names \ {f})

\* C21: the u32 written for a combination of the fifteen flags is the OR of the bits
\* of the flags that are true, and reading it gives the combination again; reading
\* any u32 sets each flag iff its bit is set, whatever the bit 0x4000 and the bits 16
\* to 31 are.
C21_MessageFlags ==
    origin.kind = "flags" =>
        /\ (origin.wire = <<>> /\ steps >= 1) =>
              /\ Len(wire) = 4
              /\ LowHalf(wire) = SumOfBits(origin.held, DOMAIN MessageFlagEnum)
              /\ wire[3] = 0 /\ wire[4] = 0
        /\ (origin.wire = <<>> /\ steps = 2) => (err = "ok" /\ held = origin.held)
        /\ (origin.wire # <<>> /\ steps = 1) =>
              /\ err = "ok"
              /\ \A f \in DOMAIN MessageFlagEnum : held[f] = HasBit(wire, MessageFlagEnum[f])

\* All fifteen flags were written as FFBF0000 and read back; a u32 with the bit 0x4000
\* and bits of the upper half was read as no flag at all.
C21_Witness ==
    \/ /\ origin.kind = "flags" /\ origin.wire = <<>> /\ steps = 2
       /\ \A f \in DOMAIN MessageFlagEnum : origin.held[f]
       /\ wire = <<255, 191, 0, 0>>
       /\ held = origin.held
    \/ /\ origin.kind = "flags" /\ origin.wire = <<0, 64, 255, 128>> /\ steps = 1
       /\ \A f \in DOMAIN MessageFlagEnum : ~held[f]

\* The parse of the records by the last Stream::decode: its result and the place of
\* the reader after it, and the same for the bytes cut at `n`.
LastParse == ParseRecords(Reader(wire, overflow_checks), 1)

ParseCutAt(n) == ParseRecords(Reader(SubSeq(wire, 1, n), overflow_checks), 1)

\* The result `parsed` of a parse that did not fail is the record list `recs`, which
\* has MessageEnd last and nowhere else, and the tag of that MessageEnd is the last
\* byte read: the parse of the bytes that end with it is the same.
EndsAtMessageEnd(parsed, recs) ==
    parsed.e = "ok" =>
        /\ recs = parsed.v
        /\ recs # <<>>
        /\ recs[Len(recs)].k = "MessageEnd"
        /\ \A i \in 1..(Len(recs) - 1) : recs[i].k # "MessageEnd"
        /\ parsed.p - 1 <= Len(wire)
        /\ wire[parsed.p - 1] = RecordType.MessageEnd
        /\ ParseCutAt(parsed.p - 1) = parsed

\* C22: the parse of the top-level records stops at the first top-level MessageEnd:
\* the list it returns has MessageEnd last and at no earlier top-level place, and the
\* tag of that MessageEnd is the last byte read, so that no byte after it is; a
\* MessageEnd read in a member slot does not end the parse.
C22_StopsAtMessageEnd ==
    LastCall = "decode" => With(LastParse, LAMBDA parsed : EndsAtMessageEnd(parsed, records))

\* Stream::decode parsed bytes with a MessageEnd tag in a member slot and went on to
\* the top-level MessageEnd after it; or it stopped at a MessageEnd tag that has
\* bytes after it.
C22_Witness ==
    /\ origin.kind = "wire" /\ steps = 1
    /\ LastParse.e = "ok"
    /\ \/ /\ origin.wire = Poke(SystemClassMemberBytes, 45, RecordType.MessageEnd)
          /\ Len(records) = 4
          /\ records[3].member_references = <<[k |-> "MessageEnd"]>>
          /\ LastParse.p = Len(wire) + 1
       \/ /\ origin.wire = Poke(FlatClassBytes, 18, RecordType.MessageEnd)
          /\ Len(records) = 2
          /\ LastParse.p = 19

\* The tables of Stream::decode after its loop over the records of the last parse.
Indexed ==
    Index(records, [objects |-> <<>>, libraries |-> <<>>, root_id |-> <<>>,
                    root |-> <<>>, panic |-> ""])

\* The class records that decode_class of the record `class` calls decode_class for:
\* those a MemberReference of a Class-typed member names in the object table.
ClassMembers(state, class) ==
    {state.objects[class.member_references[i].id] :
        i \in {j \in 1..Len(class.member_references) :
                 /\ j <= Len(class.member_type_info.member_types)
                 /\ class.member_type_info.member_types[j] = BinaryType.Class
                 /\ class.member_references[j].k = "MemberReference"
                 /\ class.member_references[j].id \in DOMAIN state.objects
                 /\ state.objects[class.member_references[j].id].k
                       = "ClassWithMembersAndTypes"}}

\* The class records reached from those of `classes` through such members.
RECURSIVE ReachedFrom(_, _)
ReachedFrom(state, classes) ==
    LET more == classes \cup UNION {ClassMembers(state, c) : c \in classes}
    IN  IF more = classes THEN classes ELSE ReachedFrom(state, more)

\* The class graph reached from the root has a cycle.
HasCycle(state) ==
    /\ state.panic = ""
    /\ state.root # <<>>
    /\ \E c \in ReachedFrom(state, {state.root[1]}) :
          c \in ReachedFrom(state, ClassMembers(state, c))

\* C23: when the class graph reached from the root has a cycle through Class-typed
\* MemberReferences, Stream::decode returns neither a Stream nor a ParseError: the
\* recursion of decode_class does not end.
C23_CyclesDoNotReturn ==
    (LastCall = "decode" /\ records # <<>>) =>
        With(Indexed, LAMBDA state : HasCycle(state) => (err = "panic" /\ pc = "stopped"))

\* Stream::decode was given a root whose Class member x refers to the root itself,
\* and the recursion of decode_class did not end.
C23_Witness ==
    /\ origin.kind = "wire" /\ steps = 1
    /\ origin.wire = Poke(NestedClassBytes, 50, 1)
    /\ records # <<>>
    /\ HasCycle(Indexed)
    /\ panic_at = "stack overflow"

\* The number of bytes the leading byte b makes a read of a char consume.
CharLength(b) ==
    IF b < 128 THEN 1                       \* 0xxxxxxx
    ELSE IF b >= 192 /\ b <= 223 THEN 2     \* 110xxxxx
    ELSE IF b >= 224 /\ b <= 239 THEN 3     \* 1110xxxx
    ELSE 4

\* The first n bytes of w, n at most 3, as one number, the first byte highest.
RECURSIVE WholeBytes(_, _)
WholeBytes(w, n) == IF n = 0 THEN 0 ELSE WholeBytes(w, n - 1) * 256 + w[n]

\* n is a Unicode scalar value.
UnicodeScalar(n) == n <= 1114111 /\ ~(n >= 55296 /\ n <= 57343)

\* A char was read from the bytes `wire`.
CharWasRead == origin.kind = "char" /\ pc \in {"read", "stopped"}

\* The read of a char from w gave what C24 has for it: IoError when w is shorter than
\* the leading byte asks for; InvalidChar for four bytes, whose u32 is 0x80000000 or
\* more, and for a u32 of fewer that is a surrogate; else the char of the u32 of the
\* whole bytes, the place of the reader being after them.
ReadAsWholeBytes(w) ==
    LET n == CharLength(w[1])
    IN  IF Len(w) < n THEN err = "IoError"
        ELSE IF n = 4 \/ ~UnicodeScalar(WholeBytes(w, n)) THEN err = "InvalidChar"
        ELSE /\ err = "ok"
             /\ held = WholeBytes(w, n)
             /\ ParseChar(Reader(w, overflow_checks), 1).p = n + 1

\* C24: a read of a char consumes 1, 2, 3 or 4 bytes as the leading byte has it,
\* takes them as whole bytes into a u32, the first highest, and gives the char of
\* that u32, or InvalidChar when the u32 is no Unicode scalar value; so the bytes of a
\* char of two bytes or more are not read as the char, and a char that was written is
\* read back as itself only when it is below U+0080.
C24_CharWholeBytes ==
    CharWasRead =>
        /\ ReadAsWholeBytes(wire)
        /\ origin.wire = <<>> =>
              /\ wire = EncodeUtf8(origin.held)
              /\ (err = "ok" /\ held = origin.held) = (origin.held < 128)

\* U+00E9 was written as C3 A9 and read back as U+C3A9; the bytes 80 41 41 41, led
\* by a continuation byte, were read as four bytes and are no char.
C24_Witness ==
    /\ CharWasRead
    /\ \/ /\ origin.wire = <<>> /\ origin.held = 233
          /\ wire = <<195, 169>> /\ err = "ok" /\ held = 50089
       \/ origin.wire = <<128, 65, 65, 65>> /\ err = "InvalidChar"

\* The time of day of n ticks of 100 ns, 0 <= n < 2^31: its seconds, which hold the
\* hours and the minutes, and the nanoseconds of its last second.
TimeOfTicks(n) == [secs |-> n \div 10000000, frac |-> (n % 10000000) * 100]

\* The read of a TimeSpan gave the time `time`.
TimeRead(time) == err = "ok" /\ held = time

\* C25: the read of a TimeSpan of t ticks gives the time whose hours, minutes,
\* seconds and nanoseconds are those of |t| x 100 ns (600,000,000 ticks are 0 h 1 min
\* 0 s 0 ns), and fails with InvalidTimeSpan exactly when |t| x 100 ns is 24 hours or
\* more.
C25_TimeSpanBreakdown ==
    (origin.kind = "timespan" /\ steps = 1) =>
        /\ \A n \in SmallTicks : \A negative \in BOOLEAN :
              wire = TickBytes(n, negative) => TimeRead(TimeOfTicks(n))
        /\ wire = OneHourBytes => TimeRead([secs |-> 3600, frac |-> 0])
        /\ wire = AlmostOneDayBytes => TimeRead([secs |-> 86399, frac |-> 999999900])
        /\ wire \in {OneDayBytes, MinTicksBytes} => err = "InvalidTimeSpan"

\* A BinaryLibrary record before place `at` declares library_id `id` for `name`.
DeclaredBefore(at, id, name) ==
    \E j \in 1..(at - 1) :
        /\ records[j].k = "BinaryLibrary"
        /\ records[j].library_id = id
        /\ records[j].library_name = name

\* C26: in the record list of Stream::encode the library_id of every
\* ClassWithMembersAndTypes record, and of the ClassTypeInfo of every Class-typed
\* field, is the library_id of a BinaryLibrary record earlier in the list whose
\* library_name is that of the class; so too when two sibling classes have the same
\* library_name.
C26_LibraryReferences ==
    LastCall = "encode" =>
        \A placed \in Placed(stream, RootAt) :
            /\ DeclaredBefore(placed[2], records[placed[2]].library_id,
                              placed[1].library_name)
            /\ \A j \in 1..Len(placed[1].fields) :
                  placed[1].fields[j].value.f = "Class" =>
                      DeclaredBefore(
                          placed[2],
                          records[placed[2]].member_type_info.additional_info[j].info.library_id,
                          placed[1].fields[j].value.class.library_name)

\* A Class of the kind of C27: no Class field, no TimeSpan or DateTime value, no char
\* at or above U+0080 (the strings and names of the trees are shorter than 256 bytes).
FlatClass(class) ==
    /\ ~HasClassField(class)
    /\ ~HasTimeValue(class)
    /\ \A j \in 1..Len(class.fields) :
          class.fields[j].value.f = "Primitive" =>
              ~(class.fields[j].value.primitive.variant = "Char"
                   /\ class.fields[j].value.primitive.n >= 128)

\* C27: for a Class without Class fields, TimeSpan or DateTime values and chars at or
\* above U+0080, Stream::decode of the bytes written by Stream::encode returns a Class
\* with the same library_name, name, field order and field values, and Stream::encode
\* of that Class writes the same bytes again.
C27_FlatRoundTrip ==
    /\ []((origin.kind = "stream" /\ FlatClass(origin.stream) /\ steps \in {1, 2}) =>
             (err = "ok" /\ stream = origin.stream))
    /\ [][(Encode /\ origin.kind = "stream" /\ FlatClass(origin.stream) /\ steps = 2) =>
             (err' = "ok" /\ wire' = wire)]_vars

\* A Class with an Int32 field and an array of one element was written, read back
\* and written again.
C27_Witness ==
    /\ origin.kind = "stream" /\ steps = 3
    /\ FlatClass(origin.stream)
    /\ Len(origin.stream.fields) = 2
    /\ origin.stream.fields[1].value.f = "Primitive"
    /\ origin.stream.fields[2].value.f = "PrimitiveArray"
    /\ Len(origin.stream.fields[2].value.array.items) = 1
    /\ stream = origin.stream
    /\ err = "ok"

\* Class "A" of "L" with x = Int32 42 and y = the Int32 array [1, -1]: the Class of
\* FlatClassBytes.
FlatClassDecoded ==
    [library_name |-> <<76>>, name |-> <<65>>,
     fields |-> <<[name |-> <<120>>,
                   value |-> [f |-> "Primitive", primitive |-> Num("Int32", 42)]],
                  [name |-> <<121>>,
                   value |-> [f |-> "PrimitiveArray",
                              array |-> [variant |-> "Int32",
                                         items |-> <<[n |-> 1, b |-> <<>>],
                                                     [n |-> -1, b |-> <<>>]>>]]]>>]

\* Class "A" of "L" with x = Class "A" of "L" without fields: the Class of
\* NestedClassBytes.
NestedClassDecoded ==
    [library_name |-> <<76>>, name |-> <<65>>,
     fields |-> <<[name |-> <<120>>, value |-> [f |-> "Class", class |-> ClassLA]]>>]

\* C28: Stream::decode indexes every top-level record before it walks the root
\* class, so a MemberReference and a library_id resolve to the record with the id
\* whether it is before or after the class that refers to it: with the header first
\* and the ids distinct, the BinaryLibrary, ArraySinglePrimitive and class records in
\* another order give the same Class.
C28_OrderIndependence ==
    (origin.kind = "wire" /\ steps = 1) =>
        /\ origin.wire \in Reordered(FlatClassBytes, FlatClassStarts) =>
              (err = "ok" /\ stream = FlatClassDecoded)
        /\ origin.wire \in Reordered(NestedClassBytes, NestedClassStarts) =>
              (err = "ok" /\ stream = NestedClassDecoded)

\* Stream::decode was given the array record, then the class record that refers to
\* it, then the BinaryLibrary record of its library.
C28_Witness ==
    /\ origin.kind = "wire" /\ steps = 1
    /\ origin.wire \in Reordered(FlatClassBytes, FlatClassStarts)
    /\ Len(records) = 5
    /\ records[2].k = "ArraySinglePrimitive"
    /\ records[3].k = "ClassWithMembersAndTypes"
    /\ records[4].k = "BinaryLibrary"
    /\ stream = FlatClassDecoded

\* The records with member values: the class records among `recs` and among the
\* member values of those.
IsClassRecord(r) ==
    r.k \in {"ClassWithMembersAndTypes", "SystemClassWithMembersAndTypes"}

ClassRecordsOf(recs) ==
    {recs[i] : i \in {j \in 1..Len(recs) : IsClassRecord(recs[j])}}

ClassRecordsIn(recs) ==
    ClassRecordsOf(recs)
    \cup UNION {ClassRecordsOf(r.member_references) : r \in ClassRecordsOf(recs)}

\* The member types that have an additional_info entry.
TypesWithInfo ==
    {BinaryType.Primitive_, BinaryType.PrimitiveArray, BinaryType.SystemClass,
     BinaryType.Class}

\* The class record r has one member value per entry of its additional_info, in
\* order: a primitive of the type of a Primitive entry, a tagged record for another.
MemberValuesFollowInfo(r) ==
    With(r.member_type_info, LAMBDA info :
        /\ Len(r.member_references) = Len(info.additional_info)
        /\ Len(r.member_references) =
              Cardinality({i \in 1..Len(info.member_types) :
                              info.member_types[i] \in TypesWithInfo})
        /\ \A i \in 1..Len(info.additional_info) :
              IF info.additional_info[i].a = "Primitive"
              THEN /\ r.member_references[i].k = "MemberPrimitiveUnTyped"
                   /\ r.member_references[i].prim.variant =
                         VariantOf(info.additional_info[i].t)
              ELSE r.member_references[i].k # "MemberPrimitiveUnTyped")

\* C29: the parse of a ClassWithMembersAndTypes or SystemClassWithMembersAndTypes
\* record reads one member value per entry of its additional_info, in order (an
\* unframed primitive for a Primitive entry, a tagged record otherwise): there are as
\* many member values as members of BinaryType Primitive, PrimitiveArray, SystemClass
\* or Class, and for a member of BinaryType String, Object, ObjectArray or
\* StringArray no byte is read: the byte after the library id of the class with one
\* such member is read as the tag of the next top-level record.
C29_ValuesFollowAdditionalInfo ==
    LastCall = "decode" =>
        With(LastParse, LAMBDA parsed :
            parsed.e = "ok" =>
                /\ \A r \in ClassRecordsIn(parsed.v) : MemberValuesFollowInfo(r)
                /\ \A t \in {BinaryType.String, BinaryType.Object,
                             BinaryType.ObjectArray, BinaryType.StringArray} :
                      MemberOfType(t) =>
                          /\ Len(parsed.v) = 4
                          /\ parsed.v[3].class_info.member_count = 1
                          /\ parsed.v[3].member_references = <<>>
                          /\ parsed.v[4].k = "MessageEnd"
                          /\ parsed.p = Len(wire) + 1)

\* A class with one member of BinaryType String was parsed.
C29_Witness ==
    /\ LastCall = "decode"
    /\ MemberOfType(BinaryType.String)
    /\ LastParse.e = "ok"
    /\ LastParse.v[3].k = "ClassWithMembersAndTypes"
    /\ LastParse.v[3].member_type_info.member_types = <<BinaryType.String>>

(***************************************************************************)
(* ParseFrom for Vec<Record>, one iteration of its `loop` at a time: the   *)
(* reader is at the byte `held` of the bytes `wire`, and `records` is the  *)
(* list pushed so far.                                                     *)
(***************************************************************************)
MaxTags == 4

MaxRecords == 8

\* Inputs made of the tags of ObjectNull and MessageEnd and of
\* ObjectNullMultiple256, which is followed by one byte.
TagWires ==
    UNION {[1..n -> {RecordType.ObjectNull, RecordType.MessageEnd,
                     RecordType.ObjectNullMultiple256}] : n \in 0..MaxTags}

\* The bases cut before their end.
CutWires == UNION {{SubSeq(b, 1, n) : n \in 0..(Len(b) - 1)} : b \in Bases}

ParseInit ==
    /\ overflow_checks \in BOOLEAN
    /\ origin \in {[kind |-> "parse", stream |-> <<>>, wire |-> w] :
                      w \in Wires \cup TagWires}
    /\ pc = "parse"
    /\ held = 1
    /\ stream = <<>>
    /\ wire = origin.wire
    /\ records = <<>>
    /\ err = "ok"
    /\ errx = 0
    /\ panic_at = ""
    /\ steps = 0

\* One iteration: the tag and the record are read and the record is pushed; the loop
\* ends at a failure and after MessageEnd.
ParseIteration ==
    /\ pc = "parse"
    /\ Len(records) < MaxRecords
    /\ \E reader \in {Reader(wire, overflow_checks)} :
       \E record \in {Bind(ParseRecordType(reader, held), LAMBDA record_type :
                          ParseRecord(reader, record_type.p, record_type.v))} :
          IF record.e # "ok"
          THEN /\ pc' = "stopped"
               /\ err' = record.e
               /\ errx' = record.x
               /\ panic_at' = IF record.e = "panic" THEN "parse" ELSE ""
               /\ records' = <<>>
               /\ UNCHANGED held
          ELSE /\ pc' = IF record.v.k = "MessageEnd" THEN "done" ELSE "parse"
               /\ records' = Append(records, record.v)
               /\ held' = record.p
               /\ UNCHANGED <<err, errx, panic_at>>
    /\ steps' = steps + 1
    /\ UNCHANGED <<stream, wire, origin, overflow_checks>>

ParseNext == ParseIteration

\* A step of the loop that is running: ParseIteration is the only action, and it
\* can be taken exactly when its first two conjuncts hold.
Iterates ==
    /\ pc = "parse"
    /\ Len(records) < MaxRecords
    /\ steps' = steps + 1

\* The loop runs until it ends.
ParseSpec == ParseInit /\ [][ParseNext]_vars /\ WF_steps(Iterates)

\* A record read in a member slot at the place p of the bytes held ends after p.
MemberRecordConsumes(p) ==
    With(ReadReference(Reader(wire, overflow_checks), p,
                       [a |-> "PrimitiveArray", t |-> PrimitiveType.Int32]),
         LAMBDA member : member.e = "ok" => member.p > p)

\* C30: for every finite input the parse of the top-level records eventually stops,
\* with a record list or with a failure: every iteration that pushes a record
\* leaves the reader further in the input, so does every record read in a member
\* slot, there are never more records than bytes read, and an input that runs out
\* before a MessageEnd ends the parse with IoError.
C30_ParseTerminates ==
    /\ <>(pc \in {"done", "stopped"})
    /\ [][ParseIteration => (pc' = "stopped" \/ held' > held)]_vars
    /\ [](Len(records) < held /\ held <= Len(wire) + 1)
    /\ []((pc = "parse" /\ steps = 0) => \A p \in 1..Len(wire) : MemberRecordConsumes(p))
    /\ []((pc = "done") => (err = "ok" /\ records[Len(records)].k = "MessageEnd"))
    /\ []((pc = "stopped" /\ origin.wire \in TagWires) => err = "IoError")

\* The parse of four bytes ended at the MessageEnd that was their last byte, after
\* three iterations.
C30_Witness ==
    /\ origin.kind = "parse"
    /\ origin.wire \in TagWires
    /\ Len(origin.wire) = 4
    /\ steps = 3
    /\ pc = "done"
    /\ held = 5

====
